---- MODULE Spec2Model ----
(***************************************************************************)
(* Verification model of story2map.                                        *)
(*                                                                         *)
(*   SpecMerge  : utils/place_extraction.py, combine_place_extractions     *)
(*   SpecRender : the three folium rendering paths                         *)
(*                utils/map_handler.py   create_folium_map                 *)
(*                utils/map_generator.py MapGenerator._create_folium_map   *)
(*                app.py                 main, inline map preview          *)
(*                                                                         *)
(* Python dicts are functions whose DOMAIN is the set of keys present, so  *)
(* `"k" in d` is "k" \in DOMAIN d.  Strings that the code transforms       *)
(* (place names) are sequences of one-character strings.  Floats are       *)
(* integers; a mean is kept as the pair <<sum, count>>.                    *)
(***************************************************************************)
EXTENDS Integers, Sequences, FiniteSets, TLC

VARIABLES
    pc,              \* position of the modelled call
    spacy_places,    \* combine_place_extractions: first argument
    gemini_places,   \* combine_place_extractions: second argument
    combined,        \* combine_place_extractions: returned list
    places,          \* rendering: the place list handed to the renderer
    rendered,        \* rendering: the folium map the renderer built
    data_dir,        \* the data directory: file name -> file
    ret,             \* rendering: path returned by MapGenerator.create_map, <<>> for ""
    api,             \* persistence: whose save/load/list is in use
    op,              \* persistence: the last call and what it returned
    last_saved,      \* history: name -> list of the latest successful save under it
    succeeded,       \* history: names under which a save has succeeded
    n_saves,         \* history: number of saves made
    session_locations,  \* app.py: st.session_state.locations
    current_map_name,   \* app.py: st.session_state.current_map_name, NoName for None
    geo_fn,          \* geocoding: the batch function that runs
    geo_key,         \* geocoding: is GOOGLE_MAPS_API_KEY set
    geo_in,          \* geocoding: the list handed to the batch function
    geo_i,           \* geocoding: number of places the loop has gone through
    geo_out,         \* geocoding: geocoded_places / enriched_locations
    geo_log,         \* history: provider requests with their answers, and sleeps
    ex_fn,           \* extraction: the function that is called
    ex_key,          \* extraction: is there a Gemini API key
    ex_model,        \* extraction: self.model, "unset" while the attribute is missing
    ex_content,      \* extraction: the text of the LLM response
    ex_ret,          \* extraction: what the call returned
    ex_llm_calls,    \* history: number of calls of generate_content
    tag_locations,   \* tag filter: the locations handed to the two functions
    tag_selected,    \* tag filter: selected_tags, as a set
    tag_unique,      \* tag filter: what get_unique_tags returned, as a set
    tag_filtered,    \* tag filter: what filter_locations_by_tags returned
    route_key,       \* routing: is GOOGLE_MAPS_API_KEY set
    route_args,      \* routing: origin, destination, waypoints and mode of the call
    route_data,      \* routing: the JSON of the provider's response
    route_ret,       \* routing: what get_route returned
    route_log        \* history: the requests sent to the Directions API

mergeVars == <<spacy_places, gemini_places, combined>>
renderVars == <<places, rendered, ret>>
persistVars == <<api, op, last_saved, succeeded, n_saves>>

sessionVars == <<session_locations, current_map_name>>

geoVars == <<geo_fn, geo_key, geo_in, geo_i, geo_out, geo_log>>

extractVars == <<ex_fn, ex_key, ex_model, ex_content, ex_ret, ex_llm_calls>>

tagVars == <<tag_locations, tag_selected, tag_unique, tag_filtered>>

routeVars == <<route_key, route_args, route_data, route_ret, route_log>>

vars == <<pc, mergeVars, renderVars, data_dir, persistVars, sessionVars, geoVars, extractVars, tagVars, routeVars>>

\* what the steps of one part of the program leave as it is
frameMerge == <<renderVars, data_dir, persistVars, sessionVars, geoVars, extractVars, tagVars, routeVars>>
frameRender == <<mergeVars, persistVars, sessionVars, geoVars, extractVars, tagVars, routeVars>>
framePersist == <<pc, api, mergeVars, renderVars, sessionVars, geoVars, extractVars, tagVars, routeVars>>
frameSession == <<pc, api, last_saved, succeeded, mergeVars, renderVars, geoVars, extractVars, tagVars, routeVars>>
frameGeo == <<mergeVars, renderVars, data_dir, persistVars, sessionVars, extractVars, tagVars, routeVars>>
frameExtract == <<mergeVars, renderVars, data_dir, persistVars, sessionVars, tagVars, routeVars>>
frameTags == <<mergeVars, renderVars, data_dir, persistVars, sessionVars, geoVars, extractVars, routeVars>>
framePipeline == <<api, last_saved, succeeded, mergeVars, geoVars, extractVars, tagVars, routeVars>>
frameRoute == <<mergeVars, renderVars, data_dir, persistVars, sessionVars, geoVars, extractVars, tagVars>>

None == "None"

\* values of the variables of a part of the program that is not running
MergeIdle == spacy_places = <<>> /\ gemini_places = <<>> /\ combined = None
RenderIdle == places = <<>> /\ rendered = None /\ ret = <<>>
\* a map name that is None; no name the program sets is empty
NoName == <<>>
SessionIdle == session_locations = <<>> /\ current_map_name = NoName
ExtractIdle ==
    /\ ex_fn = None
    /\ ex_key = FALSE
    /\ ex_model = None
    /\ ex_content = <<>>
    /\ ex_ret = [kind |-> None]
    /\ ex_llm_calls = 0
GeoIdle ==
    /\ geo_fn = None
    /\ geo_key = FALSE
    /\ geo_in = <<>>
    /\ geo_i = 0
    /\ geo_out = <<>>
    /\ geo_log = <<>>
TagsIdle ==
    /\ tag_locations = <<>>
    /\ tag_selected = {}
    /\ tag_unique = {}
    /\ tag_filtered = <<>>
RouteIdle ==
    /\ route_key = FALSE
    /\ route_args = <<>>
    /\ route_data = <<>>
    /\ route_ret = [ok |-> FALSE]
    /\ route_log = <<>>
PersistIdle ==
    /\ api = None
    /\ op = [kind |-> None]
    /\ last_saved = <<>>
    /\ succeeded = {}
    /\ n_saves = 0

(***************************************************************************)
(* Bounds of the explored inputs                                           *)
(***************************************************************************)
MaxCands == 3        \* len(spacy_places) + len(gemini_places)
MaxPlaces == 2       \* len(places) handed to a renderer

(***************************************************************************)
(* Python str methods used by the merge                                    *)
(***************************************************************************)
Whitespace == {" "}

LowerChar(c) == IF c = "P" THEN "p" ELSE IF c = "R" THEN "r" ELSE c

\* str.lower()
lower_skip(s) == s
lower(s) == [i \in DOMAIN s |-> LowerChar(s[i])]

RECURSIVE lstrip(_)
lstrip(s) ==
    IF s = <<>> THEN s
    ELSE IF Head(s) \in Whitespace THEN lstrip(Tail(s)) ELSE s

RECURSIVE rstrip(_)
rstrip(s) ==
    IF s = <<>> THEN s
    ELSE IF s[Len(s)] \in Whitespace THEN rstrip(SubSeq(s, 1, Len(s) - 1)) ELSE s

\* str.strip()
strip_skip(s) == s
strip(s) == rstrip(lstrip(s))

\* dict.get(key, default)
dict_get(d, k, default) == IF k \in DOMAIN d THEN d[k] ELSE default

(***************************************************************************)
(* combined_places: an insertion-ordered dict, a sequence of               *)
(* [key, value] items with pairwise different keys                         *)
(***************************************************************************)
Keys(d) == {d[i].key : i \in DOMAIN d}

ItemIndex(d, k) == CHOOSE i \in DOMAIN d : d[i].key = k

\* combined_places[k]["mentions"] += 1
IncrMentions_skip(d, k) == d
IncrMentions(d, k) ==
    [d EXCEPT ![ItemIndex(d, k)].value.mentions = @ + 1]

\* combined_places[k]["sentiment"] = s
SetSentiment_retyped(d, k, s) ==
    [d EXCEPT ![ItemIndex(d, k)].value.sentiment = s,
              ![ItemIndex(d, k)].value.type = "Unknown"]
SetSentiment(d, k, s) ==
    [d EXCEPT ![ItemIndex(d, k)].value.sentiment = s]

\* body of the loop over spacy_places
AddSpacyPlace_from0(d, place) ==
    LET name == strip(place.name) IN
    IF lower(name) \notin Keys(d)
    THEN Append(d, [key |-> lower(name),
                    value |-> [name |-> name,
                               type |-> dict_get(place, "type", "Unknown"),
                               sentiment |-> "neutral",
                               mentions |-> 0]])
    ELSE IncrMentions(d, lower(name))
AddSpacyPlace(d, place) ==
    LET name == strip(place.name) IN
    IF lower(name) \notin Keys(d)
    THEN Append(d, [key |-> lower(name),
                    value |-> [name |-> name,
                               type |-> dict_get(place, "type", "Unknown"),
                               sentiment |-> "neutral",
                               mentions |-> 1]])
    ELSE IncrMentions(d, lower(name))

\* body of the loop over gemini_places
AddGeminiPlace_anysentiment(d, place) ==
    LET name == strip(place.name) IN
    IF lower(name) \notin Keys(d)
    THEN Append(d, [key |-> lower(name),
                    value |-> [name |-> name,
                               type |-> dict_get(place, "type", "Unknown"),
                               sentiment |-> dict_get(place, "sentiment", "neutral"),
                               mentions |-> 1]])
    ELSE LET d1 == IF "sentiment" \in DOMAIN place
                   THEN SetSentiment(d, lower(name), place.sentiment)
                   ELSE d
         IN IncrMentions(d1, lower(name))
AddGeminiPlace(d, place) ==
    LET name == strip(place.name) IN
    IF lower(name) \notin Keys(d)
    THEN Append(d, [key |-> lower(name),
                    value |-> [name |-> name,
                               type |-> dict_get(place, "type", "Unknown"),
                               sentiment |-> dict_get(place, "sentiment", "neutral"),
                               mentions |-> 1]])
    ELSE LET d1 == IF "sentiment" \in DOMAIN place /\ place.sentiment # "neutral"
                   THEN SetSentiment(d, lower(name), place.sentiment)
                   ELSE d
         IN IncrMentions(d1, lower(name))

RECURSIVE SpacyLoop(_, _)
SpacyLoop(d, ps) ==
    IF ps = <<>> THEN d ELSE SpacyLoop(AddSpacyPlace(d, Head(ps)), Tail(ps))

RECURSIVE GeminiLoop(_, _)
GeminiLoop(d, ps) ==
    IF ps = <<>> THEN d ELSE GeminiLoop(AddGeminiPlace(d, Head(ps)), Tail(ps))

\* list(combined_places.values())
DictValues_rev(d) == [i \in DOMAIN d |-> d[Len(d) + 1 - i].value]
DictValues(d) == [i \in DOMAIN d |-> d[i].value]

combine_needs_both(sp, gp) ==
    IF sp = <<>> THEN <<>> ELSE DictValues(GeminiLoop(SpacyLoop(<<>>, sp), gp))
combine_place_extractions(sp, gp) ==
    DictValues(GeminiLoop(SpacyLoop(<<>>, sp), gp))

(***************************************************************************)
(* Inputs of the merge                                                     *)
(***************************************************************************)
Names == { <<"P">>, <<"p">>, <<" ", "p">>, <<"p", ".">>, <<"R">> }

Sentiments == {"neutral", "positive", "negative"}

\* every name without metadata, a name and its blank-prefixed variant with
\* each sentiment, and two names with a type
Candidates ==
    {[name |-> n] : n \in Names}
    \cup {[name |-> n, sentiment |-> s] : n \in { <<"p">>, <<" ", "p">> }, s \in Sentiments}
    \cup {[name |-> n, type |-> "GPE"] : n \in { <<"P">>, <<"R">> }}

SeqsUpTo(S, n) == UNION {[1..k -> S] : k \in 0..n}

InitMerge ==
    /\ pc = "merge"
    /\ \E la \in 0..MaxCands :
         /\ spacy_places \in [1..la -> Candidates]
         /\ gemini_places \in SeqsUpTo(Candidates, MaxCands - la)
    /\ combined = None
    /\ RenderIdle
    /\ data_dir = <<>>
    /\ PersistIdle
    /\ SessionIdle
    /\ GeoIdle
    /\ ExtractIdle
    /\ TagsIdle
    /\ RouteIdle

Combine ==
    /\ pc = "merge"
    /\ combined' = combine_place_extractions(spacy_places, gemini_places)
    /\ pc' = "merged"
    /\ UNCHANGED <<spacy_places, gemini_places, frameMerge>>

NextMerge == Combine

SpecMerge == InitMerge /\ [][NextMerge]_vars

(***************************************************************************)
(* Rendering: Python builtins on lists of numbers                          *)
(***************************************************************************)
RECURSIVE sum(_)
sum(xs) == IF xs = <<>> THEN 0 ELSE Head(xs) + sum(Tail(xs))

RECURSIVE max(_)
max(xs) ==
    IF Len(xs) = 1 THEN xs[1]
    ELSE LET m == max(Tail(xs)) IN IF Head(xs) >= m THEN Head(xs) ELSE m

RECURSIVE min(_)
min(xs) ==
    IF Len(xs) = 1 THEN xs[1]
    ELSE LET m == min(Tail(xs)) IN IF Head(xs) <= m THEN Head(xs) ELSE m

\* sum(xs) / len(xs), kept exact as <<numerator, denominator>>
mean(xs) == <<sum(xs), Len(xs)>>

\* [p[k] for p in ps if k in p]
RECURSIVE ValuesWithKey(_, _)
ValuesWithKey(ps, k) ==
    IF ps = <<>> THEN <<>>
    ELSE IF k \in DOMAIN Head(ps)
         THEN <<Head(ps)[k]>> \o ValuesWithKey(Tail(ps), k)
         ELSE ValuesWithKey(Tail(ps), k)

\* truth value of loc.get(k): false when the key is absent (None) and when
\* the number is 0
TruthyGet(loc, k) == k \in DOMAIN loc /\ loc[k] # 0

\* [loc.get(k, 0) for loc in locations if loc.get(k)]
RECURSIVE TruthyValues(_, _)
TruthyValues(locs, k) ==
    IF locs = <<>> THEN <<>>
    ELSE IF TruthyGet(Head(locs), k)
         THEN <<dict_get(Head(locs), k, 0)>> \o TruthyValues(Tail(locs), k)
         ELSE TruthyValues(Tail(locs), k)

\* the markers added by a loop `for p in ps: if ka in p and kb in p: Marker([p[ka], p[kb]])`
RECURSIVE Markers(_, _, _)
Markers(ps, ka, kb) ==
    IF ps = <<>> THEN <<>>
    ELSE IF ka \in DOMAIN Head(ps) /\ kb \in DOMAIN Head(ps)
         THEN << <<Head(ps)[ka], Head(ps)[kb]>> >> \o Markers(Tail(ps), ka, kb)
         ELSE Markers(Tail(ps), ka, kb)

\* folium.Map(location=[0, 0], zoom_start=2)
DefaultCenter == [lat |-> <<0, 1>>, lng |-> <<0, 1>>]
DefaultZoom == 2

(***************************************************************************)
(* utils/map_handler.py: create_folium_map(places, selected, route)        *)
(***************************************************************************)
HandlerZoom == 10

create_folium_map(ps) ==
    IF ps = <<>>
    THEN [path |-> "handler", center |-> DefaultCenter, zoom |-> DefaultZoom, markers |-> <<>>]
    ELSE LET lats == ValuesWithKey(ps, "lat")
             lngs == ValuesWithKey(ps, "lng")
         IN IF lats = <<>> \/ lngs = <<>>
            THEN [path |-> "handler", center |-> DefaultCenter, zoom |-> DefaultZoom,
                  markers |-> <<>>]
            ELSE [path |-> "handler",
                  center |-> [lat |-> mean(lats), lng |-> mean(lngs)],
                  zoom |-> HandlerZoom,
                  markers |-> Markers(ps, "lat", "lng")]

(***************************************************************************)
(* utils/map_generator.py: MapGenerator._create_folium_map, the map built  *)
(* before it is written to disk                                            *)
(***************************************************************************)
generator_zoom(max_range) ==
    IF max_range > 20 THEN 4
    ELSE IF max_range > 10 THEN 6
    ELSE IF max_range > 5 THEN 8
    ELSE IF max_range > 1 THEN 10
    ELSE 12

generator_view(locations) ==
    LET lats == TruthyValues(locations, "latitude")
        lngs == TruthyValues(locations, "longitude")
        lat_range == max(lats) - min(lats)
        lng_range == max(lngs) - min(lngs)
        max_range == IF lat_range >= lng_range THEN lat_range ELSE lng_range
    IN  IF locations = <<>>
        THEN [center |-> DefaultCenter, zoom |-> DefaultZoom]
        ELSE IF lats # <<>> /\ lngs # <<>>
             THEN [center |-> [lat |-> mean(lats), lng |-> mean(lngs)],
                   zoom |-> generator_zoom(max_range)]
             ELSE [center |-> DefaultCenter, zoom |-> DefaultZoom]

generator_map(locations) ==
    [path |-> "generator",
     center |-> generator_view(locations).center,
     zoom |-> generator_view(locations).zoom,
     markers |-> Markers(locations, "latitude", "longitude")]

(***************************************************************************)
(* app.py: main, the inline folium preview of filtered_locations           *)
(***************************************************************************)
preview_zoom(max_range) ==
    IF max_range > 20 THEN 4
    ELSE IF max_range > 10 THEN 6
    ELSE IF max_range > 5 THEN 8
    ELSE IF max_range > 1 THEN 10
    ELSE 12

preview_map(filtered_locations) ==
    LET lats == TruthyValues(filtered_locations, "latitude")
        lngs == TruthyValues(filtered_locations, "longitude")
        lat_range == max(lats) - min(lats)
        lng_range == max(lngs) - min(lngs)
        max_range == IF lat_range >= lng_range THEN lat_range ELSE lng_range
        view == IF lats # <<>> /\ lngs # <<>>
                THEN [center |-> [lat |-> mean(lats), lng |-> mean(lngs)],
                      zoom |-> preview_zoom(max_range)]
                ELSE [center |-> DefaultCenter, zoom |-> DefaultZoom]
    IN  [path |-> "preview",
         center |-> view.center,
         zoom |-> view.zoom,
         markers |-> Markers(filtered_locations, "latitude", "longitude")]

(***************************************************************************)
(* Inputs of the renderers                                                 *)
(***************************************************************************)
LatValues == {0, 1, 2, 6, 11, 21, 22}
LngValues == {0, 1, 12}

\* place dicts of map_handler.py: keys "lat" and "lng", each optional
HandlerPlaces ==
    {[name |-> "x", lat |-> a, lng |-> b] : a \in LatValues, b \in LngValues}
    \cup {[name |-> "x", lat |-> a] : a \in LatValues}
    \cup {[name |-> "x", lng |-> b] : b \in LngValues}
    \cup {[name |-> "x"]}

\* location dicts of map_generator.py and app.py: keys "latitude" and "longitude"
GeneratorPlaces ==
    {[name |-> "x", latitude |-> a, longitude |-> b] : a \in LatValues, b \in LngValues}
    \cup {[name |-> "x", latitude |-> a] : a \in LatValues}
    \cup {[name |-> "x", longitude |-> b] : b \in LngValues}
    \cup {[name |-> "x"]}

(***************************************************************************)
(* Files of the data directory and the JSON documents in them.  A file     *)
(* name is a sequence of tokens, the extension being the last one.         *)
(***************************************************************************)
\* a file written to its end, and what open(path, 'w') leaves behind when
\* the write that follows it raises
File(text) == [text |-> text, whole |-> TRUE]
Truncated == [text |-> <<>>, whole |-> FALSE]

exists(dir, path) == path \in DOMAIN dir
\* a write that leaves a file already there as it is
write_kept(dir, path, text) == dir @@ (path :> File(text))
\* open(path, 'w') and a write that runs to its end
write(dir, path, text) == (path :> File(text)) @@ dir
truncate(dir, path) == (path :> Truncated) @@ dir

\* str.endswith for a name of at least one token
endswith(s, suffix) == Len(s) >= 1 /\ s[Len(s)] = suffix

\* os.path.splitext(f)[0]
splitext(f) == SubSeq(f, 1, Len(f) - 1)

\* the order in which a dict's keys are written
JsonKeyOrder == <<"name", "tags", "latitude", "longitude", "lat", "lng">>

\* json.dump of a dict: the members "key": value one after the other
json_object(d) ==
    LET HasKey(k) == k \in DOMAIN d
        ks == SelectSeq(JsonKeyOrder, HasKey)
    IN  [j \in DOMAIN ks |-> <<ks[j], d[ks[j]]>>]

\* json.dump(locations, f): an array of objects
json_dump(obj) == [i \in DOMAIN obj |-> json_object(obj[i])]

\* json.load of one object
json_dict(members) ==
    [k \in {members[j][1] : j \in DOMAIN members} |->
        members[CHOOSE j \in DOMAIN members : members[j][1] = k][2]]

\* json.load(f): ok is FALSE where it raises json.JSONDecodeError
json_load(file) ==
    IF file.whole
    THEN [ok |-> TRUE, value |-> [i \in DOMAIN file.text |-> json_dict(file.text[i])]]
    ELSE [ok |-> FALSE]

\* the ways the writes of a save can end
IoOutcomes == {"ok", "html_fails", "json_fails", "dump_fails"}

\* MapGenerator._create_folium_map(locations, map_name): build the map,
\* write <map_name>.html, then write <map_name>.json; ret is <<>> for ""
MapGenerator_create_folium_map(dir, locations, map_name, io) ==
    LET file_path == map_name \o <<".html">>
        data_path == map_name \o <<".json">>
        m == generator_map(locations)
        saved == write(dir, file_path, m)
    IN  CASE io = "html_fails" -> [dir |-> dir, ret |-> <<>>, m |-> m]
          [] io = "json_fails" -> [dir |-> saved, ret |-> <<>>, m |-> m]
          [] io = "dump_fails" -> [dir |-> truncate(saved, data_path), ret |-> <<>>, m |-> m]
          [] io = "ok" ->
               [dir |-> write(saved, data_path, json_dump(locations)),
                ret |-> file_path, m |-> m]

MapNames == { <<"m">> }

InitRender ==
    /\ pc = "render"
    /\ places \in SeqsUpTo(HandlerPlaces, MaxPlaces) \cup SeqsUpTo(GeneratorPlaces, MaxPlaces)
    /\ rendered = None
    /\ data_dir = <<>>
    /\ ret = <<>>
    /\ MergeIdle
    /\ PersistIdle
    /\ SessionIdle
    /\ GeoIdle
    /\ ExtractIdle
    /\ TagsIdle
    /\ RouteIdle

\* map_handler.create_folium_map(places)
CreateFoliumMap ==
    /\ pc = "render"
    /\ rendered' = create_folium_map(places)
    /\ pc' = "rendered"
    /\ UNCHANGED <<places, data_dir, ret, frameRender>>

\* MapGenerator.create_map(locations, map_name) with map_type "folium":
\* build the map, write <map_name>.html, then write <map_name>.json
GeneratorCreateMap ==
    /\ pc = "render"
    /\ \E map_name \in MapNames, io \in IoOutcomes :
         LET r == MapGenerator_create_folium_map(data_dir, places, map_name, io)
         IN  /\ rendered' = r.m
             /\ data_dir' = r.dir
             /\ ret' = r.ret
    /\ pc' = "rendered"
    /\ UNCHANGED <<places, frameRender>>

\* app.py main: `if filtered_locations:` ... folium_static(m)
Preview ==
    /\ pc = "render"
    /\ places # <<>>
    /\ rendered' = preview_map(places)
    /\ pc' = "rendered"
    /\ UNCHANGED <<places, data_dir, ret, frameRender>>

NextRender == CreateFoliumMap \/ GeneratorCreateMap \/ Preview

SpecRender == InitRender /\ [][NextRender]_vars

(***************************************************************************)
(* Vocabulary of the merge properties.  Name comparison is written here    *)
(* without the operators of the model.                                     *)
(***************************************************************************)
SetMin(S) == CHOOSE x \in S : \A y \in S : x <= y
SetMax(S) == CHOOSE x \in S : \A y \in S : x >= y

\* the name with its upper-case letters folded to lower case
CaseFold(s) == [i \in DOMAIN s |-> IF s[i] = "P" THEN "p" ELSE IF s[i] = "R" THEN "r" ELSE s[i]]

\* equality under case-insensitive comparison
SameIgnoringCase(a, b) == CaseFold(a) = CaseFold(b)

\* the name without its leading and trailing blanks
Trim(s) ==
    LET solid == {i \in DOMAIN s : s[i] # " "} IN
    IF solid = {} THEN <<>> ELSE SubSeq(s, SetMin(solid), SetMax(solid))

\* equality after trimming surrounding blanks and folding case
SameTrimmedIgnoringCase(a, b) == CaseFold(Trim(a)) = CaseFold(Trim(b))

\* the candidates in the order A followed by B
AllCands == spacy_places \o gemini_places

Merged == pc = "merged"

RECURSIVE SumMentions(_)
SumMentions(ps) == IF ps = <<>> THEN 0 ELSE Head(ps).mentions + SumMentions(Tail(ps))

CountCI(cands, n) == Cardinality({k \in DOMAIN cands : SameIgnoringCase(cands[k].name, n)})
CountTrimmedCI(cands, n) == Cardinality({k \in DOMAIN cands : SameTrimmedIgnoringCase(cands[k].name, n)})

HasNonNeutral(c) == "sentiment" \in DOMAIN c /\ c.sentiment # "neutral"

(***************************************************************************)
(* C1: the list returned by combine_place_extractions(A, B) never holds    *)
(* two entries whose names are equal under case-insensitive comparison.    *)
(***************************************************************************)
C1_UniqueNamesIgnoringCase ==
    Merged => \A i, j \in DOMAIN combined :
                 i # j => ~SameIgnoringCase(combined[i].name, combined[j].name)

\* A and B hold the same name in two different casings and one entry results
C1_Witness ==
    /\ Merged
    /\ \E a \in DOMAIN spacy_places, b \in DOMAIN gemini_places :
         /\ spacy_places[a].name # gemini_places[b].name
         /\ SameIgnoringCase(spacy_places[a].name, gemini_places[b].name)
    /\ Len(AllCands) = 2
    /\ Len(combined) = 1

(***************************************************************************)
(* C2 as stated: each entry's mentions is the number of candidates of A    *)
(* plus the number of B whose name equals the entry's name under           *)
(* case-insensitive comparison, and the mentions sum to len(A) + len(B).   *)
(***************************************************************************)
C2_MentionsCountIgnoringCase ==
    Merged =>
      /\ \A i \in DOMAIN combined :
           combined[i].mentions = CountCI(spacy_places, combined[i].name)
                                  + CountCI(gemini_places, combined[i].name)
      /\ SumMentions(combined) = Len(spacy_places) + Len(gemini_places)

(***************************************************************************)
(* C2 amended: each entry's mentions is the number of candidates of A plus *)
(* the number of B whose name equals the entry's name after trimming       *)
(* surrounding whitespace and ignoring case; the mentions sum to           *)
(* len(A) + len(B).                                                        *)
(***************************************************************************)
C2_MentionsCountTrimmed ==
    Merged =>
      /\ \A i \in DOMAIN combined :
           combined[i].mentions = CountTrimmedCI(spacy_places, combined[i].name)
                                  + CountTrimmedCI(gemini_places, combined[i].name)
      /\ SumMentions(combined) = Len(spacy_places) + Len(gemini_places)

\* a name once in A and once in B, in different casings, has mentions = 2
C2_Witness ==
    /\ Merged
    /\ \E i \in DOMAIN combined :
         /\ combined[i].mentions = 2
         /\ CountCI(spacy_places, combined[i].name) = 1
         /\ CountCI(gemini_places, combined[i].name) = 1
         /\ \E b \in DOMAIN gemini_places :
              /\ SameIgnoringCase(gemini_places[b].name, combined[i].name)
              /\ gemini_places[b].name # combined[i].name

(***************************************************************************)
(* C3 as stated: for non-empty A and B in which no two candidates have     *)
(* names equal under case-insensitive comparison, the merge has length     *)
(* len(A) + len(B) and every entry has mentions = 1.                       *)
(***************************************************************************)
NoOverlapIgnoringCase ==
    \A i, j \in DOMAIN AllCands :
        i # j => ~SameIgnoringCase(AllCands[i].name, AllCands[j].name)

NoOverlapTrimmed ==
    \A i, j \in DOMAIN AllCands :
        i # j => ~SameTrimmedIgnoringCase(AllCands[i].name, AllCands[j].name)

C3_DisjointIgnoringCase ==
    (Merged /\ spacy_places # <<>> /\ gemini_places # <<>> /\ NoOverlapIgnoringCase) =>
      /\ Len(combined) = Len(spacy_places) + Len(gemini_places)
      /\ \A i \in DOMAIN combined : combined[i].mentions = 1

(***************************************************************************)
(* C3 amended: for non-empty A and B in which no two candidates have names *)
(* equal after trimming surrounding whitespace and ignoring case, the      *)
(* merge has length len(A) + len(B) and every entry has mentions = 1.      *)
(***************************************************************************)
C3_DisjointTrimmed ==
    (Merged /\ spacy_places # <<>> /\ gemini_places # <<>> /\ NoOverlapTrimmed) =>
      /\ Len(combined) = Len(spacy_places) + Len(gemini_places)
      /\ \A i \in DOMAIN combined : combined[i].mentions = 1

\* three pairwise different names spread over A and B
C3_Witness ==
    /\ Merged
    /\ spacy_places # <<>>
    /\ gemini_places # <<>>
    /\ NoOverlapTrimmed
    /\ Len(combined) = 3

(***************************************************************************)
(* C4: the merge result is in first-occurrence order: entry x precedes     *)
(* entry y exactly when the first candidate merged into x comes before the *)
(* first candidate merged into y in A followed by B.                       *)
(***************************************************************************)
FirstOccurrence(n) ==
    SetMin({k \in DOMAIN AllCands : SameTrimmedIgnoringCase(AllCands[k].name, n)})

C4_FirstOccurrenceOrder ==
    Merged =>
      /\ \A i \in DOMAIN combined :
           \E k \in DOMAIN AllCands : SameTrimmedIgnoringCase(AllCands[k].name, combined[i].name)
      /\ \A i, j \in DOMAIN combined :
           (i < j) <=> (FirstOccurrence(combined[i].name) < FirstOccurrence(combined[j].name))

\* A = [x], B = [x, y]: the duplicate of x in B does not move x behind y
C4_Witness ==
    /\ Merged
    /\ Len(spacy_places) = 1
    /\ Len(gemini_places) = 2
    /\ Len(combined) = 2
    /\ SameTrimmedIgnoringCase(gemini_places[1].name, spacy_places[1].name)
    /\ combined[1].mentions = 2
    /\ combined[2].name = Trim(gemini_places[2].name)

(***************************************************************************)
(* C5 as stated: an entry's sentiment is that of the last candidate of B   *)
(* whose name equals the entry's name under case-insensitive comparison    *)
(* and whose sentiment is present and not neutral; it is "neutral" when B  *)
(* has no such candidate.                                                  *)
(***************************************************************************)
C5_SentimentIgnoringCase ==
    Merged => \A i \in DOMAIN combined :
      LET hits == {k \in DOMAIN gemini_places :
                     /\ SameIgnoringCase(gemini_places[k].name, combined[i].name)
                     /\ HasNonNeutral(gemini_places[k])}
      IN combined[i].sentiment =
            IF hits = {} THEN "neutral" ELSE gemini_places[SetMax(hits)].sentiment

(***************************************************************************)
(* C5 amended: an entry's sentiment is that of the last candidate of B     *)
(* whose name equals the entry's name after trimming surrounding           *)
(* whitespace and ignoring case and whose sentiment is present and not     *)
(* neutral; it is "neutral" when B has no such candidate.  Sentiments of   *)
(* A candidates play no part, and a later neutral B candidate does not     *)
(* reset the value.                                                        *)
(***************************************************************************)
C5_SentimentTrimmed ==
    Merged => \A i \in DOMAIN combined :
      LET hits == {k \in DOMAIN gemini_places :
                     /\ SameTrimmedIgnoringCase(gemini_places[k].name, combined[i].name)
                     /\ HasNonNeutral(gemini_places[k])}
      IN combined[i].sentiment =
            IF hits = {} THEN "neutral" ELSE gemini_places[SetMax(hits)].sentiment

\* A carries a non-neutral sentiment, B a different non-neutral one and
\* then a neutral one for the same name: the entry keeps B's non-neutral
C5_Witness ==
    /\ Merged
    /\ Len(spacy_places) = 1
    /\ Len(gemini_places) = 2
    /\ Len(combined) = 1
    /\ HasNonNeutral(spacy_places[1])
    /\ HasNonNeutral(gemini_places[1])
    /\ gemini_places[1].sentiment # spacy_places[1].sentiment
    /\ "sentiment" \in DOMAIN gemini_places[2]
    /\ gemini_places[2].sentiment = "neutral"
    /\ combined[1].sentiment = gemini_places[1].sentiment

\* B alone holds two non-neutral sentiments for one name: the last one wins
C5_WitnessLastWins ==
    /\ Merged
    /\ spacy_places = <<>>
    /\ Len(gemini_places) = 2
    /\ Len(combined) = 1
    /\ HasNonNeutral(gemini_places[1])
    /\ HasNonNeutral(gemini_places[2])
    /\ gemini_places[1].sentiment # gemini_places[2].sentiment
    /\ combined[1].sentiment = gemini_places[2].sentiment

(***************************************************************************)
(* C6 as stated: merge([], []) = []; when exactly one of A, B is empty the *)
(* names of the result are the distinct names of the other list under      *)
(* case-insensitive comparison.                                            *)
(***************************************************************************)
OneEmpty == (spacy_places = <<>>) # (gemini_places = <<>>)

C6_EmptyInputIgnoringCase ==
    Merged =>
      /\ (spacy_places = <<>> /\ gemini_places = <<>>) => combined = <<>>
      /\ OneEmpty =>
           /\ \A k \in DOMAIN AllCands : \E i \in DOMAIN combined :
                SameIgnoringCase(combined[i].name, AllCands[k].name)
           /\ \A i \in DOMAIN combined : \E k \in DOMAIN AllCands :
                SameIgnoringCase(combined[i].name, AllCands[k].name)
           /\ \A i, j \in DOMAIN combined :
                i # j => ~SameIgnoringCase(combined[i].name, combined[j].name)

(***************************************************************************)
(* C6 amended: merge([], []) = []; when exactly one of A, B is empty the   *)
(* names of the result are the distinct names of the other list, compared  *)
(* after trimming surrounding whitespace and ignoring case.                *)
(***************************************************************************)
C6_EmptyInputTrimmed ==
    Merged =>
      /\ (spacy_places = <<>> /\ gemini_places = <<>>) => combined = <<>>
      /\ OneEmpty =>
           /\ \A k \in DOMAIN AllCands : \E i \in DOMAIN combined :
                SameTrimmedIgnoringCase(combined[i].name, AllCands[k].name)
           /\ \A i \in DOMAIN combined : \E k \in DOMAIN AllCands :
                SameTrimmedIgnoringCase(combined[i].name, AllCands[k].name)
           /\ \A i, j \in DOMAIN combined :
                i # j => ~SameTrimmedIgnoringCase(combined[i].name, combined[j].name)
           /\ Len(combined) >= 1

\* A is empty and B holds two different names, one of them twice
C6_Witness ==
    /\ Merged
    /\ spacy_places = <<>>
    /\ Len(gemini_places) = 3
    /\ Len(combined) = 2

(***************************************************************************)
(* C7 as stated: two candidate names end in one entry if and only if they  *)
(* are equal after lower-casing; names that differ in whitespace or in     *)
(* punctuation always give two entries.                                    *)
(***************************************************************************)
\* the entry a candidate name ended in
EntryOf(n) == {i \in DOMAIN combined : SameTrimmedIgnoringCase(combined[i].name, n)}

C7_MergedIffEqualIgnoringCase ==
    Merged =>
      /\ Len(combined) = Cardinality({CaseFold(AllCands[k].name) : k \in DOMAIN AllCands})
      /\ \A k, l \in DOMAIN AllCands :
           (EntryOf(AllCands[k].name) = EntryOf(AllCands[l].name))
             <=> SameIgnoringCase(AllCands[k].name, AllCands[l].name)

(***************************************************************************)
(* C7 amended: two candidate names end in one entry if and only if they    *)
(* are equal after trimming leading and trailing whitespace and            *)
(* lower-casing; names that differ in punctuation always give two          *)
(* entries, names that differ only in surrounding whitespace give one.     *)
(***************************************************************************)
C7_MergedIffEqualTrimmed ==
    Merged =>
      /\ Len(combined) = Cardinality({CaseFold(Trim(AllCands[k].name)) : k \in DOMAIN AllCands})
      /\ \A k \in DOMAIN AllCands : Cardinality(EntryOf(AllCands[k].name)) = 1
      /\ \A k, l \in DOMAIN AllCands :
           (EntryOf(AllCands[k].name) = EntryOf(AllCands[l].name))
             <=> SameTrimmedIgnoringCase(AllCands[k].name, AllCands[l].name)

\* "p", " p" and "p." are all candidates: the first two share an entry,
\* the third has its own
C7_Witness ==
    /\ Merged
    /\ \E k, l, m \in DOMAIN AllCands :
         /\ AllCands[k].name = <<"p">>
         /\ AllCands[l].name = <<" ", "p">>
         /\ AllCands[m].name = <<"p", ".">>
    /\ Len(combined) = 2


(***************************************************************************)
(* C29 as stated: the name and the type of a merged entry are those of the *)
(* first candidate, in A followed by B, that was merged into it (type      *)
(* "Unknown" when that candidate has none), and the merge leaves both      *)
(* input sequences as they were.                                           *)
(***************************************************************************)
TypeOf(c) == IF "type" \in DOMAIN c THEN c.type ELSE "Unknown"

C29_NameAndTypeOfFirstOccurrence ==
    /\ [](Merged =>
            \A i \in DOMAIN combined :
              LET first == AllCands[FirstOccurrence(combined[i].name)]
              IN  combined[i].name = first.name /\ combined[i].type = TypeOf(first))
    /\ [][UNCHANGED <<spacy_places, gemini_places>>]_vars

\* C29, amended: the name of a merged entry is the name of its first
\* occurrence in A followed by B without its leading and trailing blanks,
\* its type is that candidate's type ("Unknown" when it has none); later
\* duplicates change neither, and the merge leaves both input sequences as
\* they were.
C29_TrimmedNameAndTypeOfFirstOccurrence ==
    /\ [](Merged =>
            \A i \in DOMAIN combined :
              LET first == AllCands[FirstOccurrence(combined[i].name)]
              IN  combined[i].name = Trim(first.name) /\ combined[i].type = TypeOf(first))
    /\ [][UNCHANGED <<spacy_places, gemini_places>>]_vars

\* A = [x without a type], B = [a duplicate of x that has a type and a
\* sentiment that is not neutral]: the entry keeps the name of the first and
\* the type "Unknown", and takes the sentiment of the second
C29_Witness ==
    /\ Merged
    /\ Len(spacy_places) = 1 /\ Len(gemini_places) >= 1
    /\ "type" \notin DOMAIN spacy_places[1]
    /\ \E k \in DOMAIN gemini_places :
         /\ SameTrimmedIgnoringCase(gemini_places[k].name, spacy_places[1].name)
         /\ gemini_places[k].name # spacy_places[1].name
         /\ "type" \in DOMAIN gemini_places[k]
    /\ \E k \in DOMAIN gemini_places :
         /\ SameTrimmedIgnoringCase(gemini_places[k].name, spacy_places[1].name)
         /\ HasNonNeutral(gemini_places[k])
    /\ combined[1].name = Trim(spacy_places[1].name)
    /\ combined[1].type = "Unknown"
    /\ combined[1].mentions >= 2
    /\ combined[1].sentiment # "neutral"

(***************************************************************************)
(* Vocabulary of the rendering properties                                  *)
(***************************************************************************)
Rendered == pc = "rendered"

\* the coordinate keys of the path that rendered
LatKey == IF rendered.path = "handler" THEN "lat" ELSE "latitude"
LngKey == IF rendered.path = "handler" THEN "lng" ELSE "longitude"

\* the place carries both coordinates
Complete(p) == LatKey \in DOMAIN p /\ LngKey \in DOMAIN p

CompletePlaces == SelectSeq(places, Complete)

AllComplete == \A i \in DOMAIN places : Complete(places[i])

\* the map the rendering path builds from the list ps
ViewOf(path, ps) ==
    IF path = "handler" THEN create_folium_map(ps)
    ELSE IF path = "generator" THEN generator_map(ps)
    ELSE preview_map(ps)

\* equality of two fractions <<numerator, denominator>>
SameFraction(a, b) == a[1] * b[2] = b[1] * a[2]

SameCenter(c, d) == SameFraction(c.lat, d.lat) /\ SameFraction(c.lng, d.lng)

RECURSIVE Total(_, _)
Total(ps, k) == IF ps = <<>> THEN 0 ELSE Head(ps)[k] + Total(Tail(ps), k)

\* largest minus smallest value of key k over the list ps
Span(ps, k) ==
    LET vs == {ps[i][k] : i \in DOMAIN ps} IN SetMax(vs) - SetMin(vs)

LargerSpan(ps) ==
    IF Span(ps, LatKey) >= Span(ps, LngKey) THEN Span(ps, LatKey) ELSE Span(ps, LngKey)

ZoomTable(span) ==
    IF span > 20 THEN 4
    ELSE IF span > 10 THEN 6
    ELSE IF span > 5 THEN 8
    ELSE IF span > 1 THEN 10
    ELSE 12

(***************************************************************************)
(* C8: in every rendering path a place that lacks its latitude or its      *)
(* longitude gets no marker and does not contribute to the map center:     *)
(* every marker is the location of a place with both coordinates, and the  *)
(* center is the one the path computes from the places with both           *)
(* coordinates alone.                                                      *)
(***************************************************************************)
C8_IncompletePlacesExcluded ==
    Rendered =>
      /\ Len(rendered.markers) = Len(CompletePlaces)
      /\ \A i \in DOMAIN rendered.markers :
           rendered.markers[i] = <<CompletePlaces[i][LatKey], CompletePlaces[i][LngKey]>>
      /\ SameCenter(rendered.center, ViewOf(rendered.path, CompletePlaces).center)

(***************************************************************************)
(* C9: when every place of a non-empty list carries both coordinates, a    *)
(* coordinate 0 included, the center is the arithmetic mean of all the     *)
(* latitudes and of all the longitudes, and every place has a marker.      *)
(***************************************************************************)
C9_CenterIsMeanOfAllComplete ==
    (Rendered /\ places # <<>> /\ AllComplete) =>
      /\ SameFraction(rendered.center.lat, <<Total(places, LatKey), Len(places)>>)
      /\ SameFraction(rendered.center.lng, <<Total(places, LngKey), Len(places)>>)
      /\ rendered.markers = [i \in DOMAIN places |-> <<places[i][LatKey], places[i][LngKey]>>]

(***************************************************************************)
(* C10: for a non-empty list whose places all carry both coordinates,      *)
(* MapGenerator's folium rendering and the inline preview set the zoom     *)
(* from the larger of the latitude span and the longitude span:            *)
(* > 20 gives 4, > 10 gives 6, > 5 gives 8, > 1 gives 10, otherwise 12.    *)
(***************************************************************************)
C10_ZoomFromLargerSpan ==
    (Rendered /\ rendered.path \in {"generator", "preview"} /\ places # <<>> /\ AllComplete) =>
      rendered.zoom = ZoomTable(LargerSpan(places))

(***************************************************************************)
(* C11: rendering zero places, or only places that do not carry both       *)
(* coordinates, gives center (0, 0) and zoom 2 in every folium rendering   *)
(* path.                                                                   *)
(***************************************************************************)
NoneComplete == \A i \in DOMAIN places : ~Complete(places[i])

C11_FallbackWithoutCoordinates ==
    (Rendered /\ NoneComplete) =>
      /\ SameCenter(rendered.center, [lat |-> <<0, 1>>, lng |-> <<0, 1>>])
      /\ rendered.zoom = 2

(***************************************************************************)
(* C25: for a non-empty list whose places all carry both coordinates, the  *)
(* sentiment-coloured renderer create_folium_map of map_handler sets the   *)
(* zoom from the same table on the larger of the two spans: > 20 gives 4,  *)
(* > 10 gives 6, > 5 gives 8, > 1 gives 10, otherwise 12.                  *)
(***************************************************************************)
C25_HandlerZoomFromLargerSpan ==
    (Rendered /\ rendered.path = "handler" /\ places # <<>> /\ AllComplete) =>
      rendered.zoom = ZoomTable(LargerSpan(places))

(***************************************************************************)
(* Persistence: utils/map_handler.py save_map_data, load_map_data and      *)
(* get_saved_maps; utils/map_generator.py create_map, load_map and         *)
(* get_saved_maps.  Both keep their documents in the directory "data" of   *)
(* the working directory.                                                  *)
(***************************************************************************)
MaxSaves == 2

\* the ways the open and the dump of save_map_data can end
HandlerOutcomes == {"ok", "open_fails", "dump_fails"}

\* save_map_data appending the suffix to every file name
save_map_data_appending(dir, ps, filename, io) ==
    LET filepath == filename \o <<".json">>
    IN  CASE io = "open_fails" -> [dir |-> dir, ret |-> FALSE]
          [] io = "dump_fails" -> [dir |-> truncate(dir, filepath), ret |-> FALSE]
          [] io = "ok" -> [dir |-> write(dir, filepath, json_dump(ps)), ret |-> TRUE]

\* map_handler.save_map_data(places, filename)
save_map_data(dir, ps, filename, io) ==
    LET filepath == IF ~endswith(filename, ".json")
                    THEN filename \o <<".json">> ELSE filename
    IN  CASE io = "open_fails" -> [dir |-> dir, ret |-> FALSE]
          [] io = "dump_fails" -> [dir |-> truncate(dir, filepath), ret |-> FALSE]
          [] io = "ok" -> [dir |-> write(dir, filepath, json_dump(ps)), ret |-> TRUE]

\* map_handler.load_map_data(filename)
load_map_data(dir, filename) ==
    LET filepath == IF ~endswith(filename, ".json")
                    THEN filename \o <<".json">> ELSE filename
    IN  IF exists(dir, filepath) /\ json_load(dir[filepath]).ok
        THEN json_load(dir[filepath]).value
        ELSE <<>>

\* the lists without repetition of the elements of S
Orderings(S) ==
    {s \in [1..Cardinality(S) -> S] : \A i, j \in DOMAIN s : i # j => s[i] # s[j]}

\* [f for f in os.listdir(...) if f.endswith(".json")]: os.listdir gives the
\* files in an order of its own
listdir_json(dir) == Orderings({f \in DOMAIN dir : endswith(f, ".json")})

\* map_handler.get_saved_maps(), files being the comprehension above
get_saved_maps(files) == [i \in DOMAIN files |-> splitext(files[i])]

\* the order of str on the tokens of the names
TokenRank == [t \in {".json", "m", "n"} |-> CASE t = ".json" -> 0 [] t = "m" -> 1 [] t = "n" -> 2]

RECURSIVE str_lt(_, _)
str_lt(a, b) ==
    IF a = <<>> THEN b # <<>>
    ELSE IF b = <<>> THEN FALSE
    ELSE IF Head(a) = Head(b) THEN str_lt(Tail(a), Tail(b))
    ELSE TokenRank[Head(a)] < TokenRank[Head(b)]

\* sorted(l) for a list of different strings
sorted(l) ==
    CHOOSE t \in Orderings({l[i] : i \in DOMAIN l}) :
        \A i \in 1..(Len(t) - 1) : str_lt(t[i], t[i + 1])

\* MapGenerator.get_saved_maps()
MapGenerator_get_saved_maps(files) == sorted([i \in DOMAIN files |-> splitext(files[i])])

\* MapGenerator.load_map(map_name)
MapGenerator_load_map(dir, map_name) ==
    LET data_path == map_name \o <<".json">>
    IN  IF ~exists(dir, data_path) THEN <<>>
        ELSE IF json_load(dir[data_path]).ok THEN json_load(dir[data_path]).value
        ELSE <<>>

\* _create_google_map: is the shareable URL built and written
has_url(locations) ==
    /\ locations # <<>>
    /\ {"latitude", "longitude"} \subseteq DOMAIN locations[1]

\* the destination and the waypoints of the shareable URL
shareable_url(locations) ==
    LET HasBoth(loc) == {"latitude", "longitude"} \subseteq DOMAIN loc
        last == IF Len(locations) > 10 THEN 10 ELSE Len(locations)
        rest == SelectSeq(SubSeq(locations, 2, last), HasBoth)
    IN  <<"url">> \o [i \in 1..(1 + Len(rest)) |->
                        IF i = 1 THEN <<locations[1].latitude, locations[1].longitude>>
                        ELSE <<rest[i - 1].latitude, rest[i - 1].longitude>>]

GoogleOutcomes == IoOutcomes \cup {"url_fails"}

\* MapGenerator._create_google_map(locations, map_name): write
\* <map_name>_google.html, then <map_name>.json, then <map_name>_url.txt
MapGenerator_create_google_map(dir, locations, map_name, io, google_maps_api_key) ==
    LET file_path == map_name \o <<"_google.html">>
        data_path == map_name \o <<".json">>
        url_path == map_name \o <<"_url.txt">>
        html == write(dir, file_path, [locations |-> json_dump(locations)])
        data == write(html, data_path, json_dump(locations))
    IN  IF google_maps_api_key = None THEN [dir |-> dir, ret |-> <<>>]
        ELSE CASE io = "html_fails" -> [dir |-> dir, ret |-> <<>>]
               [] io = "json_fails" -> [dir |-> html, ret |-> <<>>]
               [] io = "dump_fails" -> [dir |-> truncate(html, data_path), ret |-> <<>>]
               [] io = "url_fails" /\ has_url(locations) -> [dir |-> data, ret |-> <<>>]
               [] OTHER ->
                    IF has_url(locations)
                    THEN [dir |-> write(data, url_path, shareable_url(locations)),
                          ret |-> shareable_url(locations)]
                    ELSE [dir |-> data, ret |-> file_path]

\* MapGenerator.create_map(locations, map_name)
create_map(dir, map_type, google_maps_api_key, locations, map_name, io) ==
    IF map_type = "folium"
    THEN LET r == MapGenerator_create_folium_map(dir, locations, map_name, io)
         IN  [dir |-> r.dir, ret |-> r.ret]
    ELSE IF map_type = "google"
    THEN MapGenerator_create_google_map(dir, locations, map_name, io, google_maps_api_key)
    ELSE [dir |-> dir, ret |-> <<>>]

PersistNames == { <<"m">>, <<"m", ".json">>, <<"n">> }

PersistLists ==
    LET a == [name |-> "x", latitude |-> 1, longitude |-> 12]
        b == [name |-> "y"]
    IN  { <<>>, <<a>>, <<a, b>>, <<b, a>> }

Apis == {"map_handler", "folium", "google"}

\* the same name with and without the suffix ".json"
Variants(name) ==
    {name \o <<".json">>} \cup (IF endswith(name, ".json") THEN {splitext(name)} ELSE {})

Forget(f, S) == [n \in DOMAIN f \ S |-> f[n]]

\* history of the saves: a successful save under a name is the latest one
\* under it; what the name with or without the suffix held before, or what a
\* failed save was to replace, is no longer followed
NoteSave(name, ps, ok) ==
    /\ last_saved' = IF ok THEN (name :> ps) @@ Forget(last_saved, Variants(name))
                     ELSE Forget(last_saved, {name} \cup Variants(name))
    /\ succeeded' = IF ok THEN succeeded \cup {name} ELSE succeeded
    /\ n_saves' = n_saves + 1

InitPersist ==
    /\ pc = "persist"
    /\ api \in Apis
    /\ data_dir = <<>>
    /\ op = [kind |-> None]
    /\ last_saved = <<>>
    /\ succeeded = {}
    /\ n_saves = 0
    /\ SessionIdle
    /\ GeoIdle
    /\ ExtractIdle
    /\ MergeIdle
    /\ RenderIdle
    /\ TagsIdle
    /\ RouteIdle

SaveMapData ==
    /\ pc = "persist" /\ api = "map_handler" /\ n_saves < MaxSaves
    /\ \E filename \in PersistNames, ps \in PersistLists, io \in HandlerOutcomes :
         LET r == save_map_data(data_dir, ps, filename, io)
         IN  /\ data_dir' = r.dir
             /\ op' = [kind |-> "save", name |-> filename, ok |-> r.ret]
             /\ NoteSave(filename, ps, r.ret)
    /\ UNCHANGED framePersist

CreateMap ==
    /\ pc = "persist" /\ api \in {"folium", "google"} /\ n_saves < MaxSaves
    /\ \E map_name \in PersistNames, locations \in PersistLists, io \in GoogleOutcomes,
          google_maps_api_key \in {None, "key"} :
         /\ api = "folium" => io \in IoOutcomes /\ google_maps_api_key = None
         /\ io = "url_fails" => has_url(locations)
         /\ LET r == create_map(data_dir, api, google_maps_api_key, locations, map_name, io)
            IN  /\ data_dir' = r.dir
                /\ op' = [kind |-> "save", name |-> map_name, ok |-> Len(r.ret) > 0]
                /\ NoteSave(map_name, locations, Len(r.ret) > 0)
    /\ UNCHANGED framePersist

LoadMapData ==
    /\ pc = "persist" /\ api = "map_handler"
    /\ \E filename \in PersistNames :
         op' = [kind |-> "load", name |-> filename, result |-> load_map_data(data_dir, filename)]
    /\ UNCHANGED <<data_dir, last_saved, succeeded, n_saves, framePersist>>

LoadMap ==
    /\ pc = "persist" /\ api \in {"folium", "google"}
    /\ \E map_name \in PersistNames :
         op' = [kind |-> "load", name |-> map_name,
                result |-> MapGenerator_load_map(data_dir, map_name)]
    /\ UNCHANGED <<data_dir, last_saved, succeeded, n_saves, framePersist>>

GetSavedMaps ==
    /\ pc = "persist" /\ api = "map_handler"
    /\ \E files \in listdir_json(data_dir) :
         op' = [kind |-> "list", result |-> get_saved_maps(files)]
    /\ UNCHANGED <<data_dir, last_saved, succeeded, n_saves, framePersist>>

GeneratorGetSavedMaps ==
    /\ pc = "persist" /\ api \in {"folium", "google"}
    /\ \E files \in listdir_json(data_dir) :
         op' = [kind |-> "list", result |-> MapGenerator_get_saved_maps(files)]
    /\ UNCHANGED <<data_dir, last_saved, succeeded, n_saves, framePersist>>

NextPersist ==
    \/ SaveMapData
    \/ CreateMap
    \/ LoadMapData
    \/ LoadMap
    \/ GetSavedMaps
    \/ GeneratorGetSavedMaps

SpecPersist == InitPersist /\ [][NextPersist]_vars

(***************************************************************************)
(* Claims on persistence                                                   *)
(***************************************************************************)
Loaded == op.kind = "load"
Listed == op.kind = "list"
Saved == op.kind = "save"

(* C12: after successful saves, load(n) returns exactly the ordered place list of the most recent save under the name n: an earlier save under n is overwritten, and saves under other names do not change what n holds. *)
C12_LoadReturnsLatestSave ==
    (Loaded /\ op.name \in DOMAIN last_saved) => op.result = last_saved[op.name]

\* a load of a two-place list, after successful saves under two names
C12_Witness ==
    /\ Loaded /\ op.name \in DOMAIN last_saved
    /\ Len(op.result) = 2
    /\ Cardinality(succeeded) = 2

\* a load of a name saved twice, the second save having replaced the first
C12_WitnessOverwritten ==
    /\ Loaded /\ op.name \in DOMAIN last_saved
    /\ op.result # <<>>
    /\ succeeded = {op.name} /\ n_saves = 2 /\ Cardinality(DOMAIN data_dir) = 1

\* a file whose name ends in ".json.json"
DoubleSuffix(f) == Len(f) >= 2 /\ f[Len(f)] = ".json" /\ f[Len(f) - 1] = ".json"

ListedName(n) ==
    IF api = "map_handler" /\ endswith(n, ".json") THEN SubSeq(n, 1, Len(n) - 1) ELSE n

\* the file in which the document of the name n is kept
DocumentPath(n) ==
    IF api = "map_handler" /\ endswith(n, ".json") THEN n ELSE n \o <<".json">>

\* load of the name n finds a document it can read
DocumentFound(n) == DocumentPath(n) \in DOMAIN data_dir /\ data_dir[DocumentPath(n)].whole

ListedNames == {op.result[i] : i \in DOMAIN op.result}

(* C14: starting from an empty data directory, after any sequence of saves get_saved_maps returns exactly the names under which a save has succeeded, each once, and a name is listed if and only if load of that name finds a document. *)
C14_ListIsSucceededNames ==
    Listed =>
      /\ ListedNames = {ListedName(n) : n \in succeeded}
      /\ \A i, j \in DOMAIN op.result : i # j => op.result[i] # op.result[j]
      /\ \A n \in PersistNames : (ListedName(n) \in ListedNames) <=> DocumentFound(n)

\* load of a name through the interface in use
LoadBy(dir, n) ==
    IF api = "map_handler" THEN load_map_data(dir, n) ELSE MapGenerator_load_map(dir, n)

\* C28: a save that fails part-way reports failure and leaves what was
\* persisted before as it was: a load of that name returns after the failed
\* save what it returned before it, and the failed attempt leaves no file
\* of its own (no new file, no file with new content) in the data directory.
C28_FailedSaveLeavesDocument ==
    [][(op'.kind = "save" /\ ~op'.ok) =>
          /\ LoadBy(data_dir', op'.name) = LoadBy(data_dir, op'.name)
          /\ data_dir' = data_dir]_vars

(***************************************************************************)
(* app.py: the session controller.  One action is one press of a button,   *)
(* with the script run that it starts.                                     *)
(***************************************************************************)
MaxLocations == 2

\* get_unique_tags(locations), the tags as a set
get_unique_tags(locations) ==
    UNION { {lower(loc.tags[j]) : j \in DOMAIN loc.tags} :
              loc \in {locations[i] : i \in {k \in DOMAIN locations :
                                               "tags" \in DOMAIN locations[k]}} }

\* filter_locations_by_tags(locations, selected_tags)
filter_locations_by_tags_exact(locations, selected_tags) ==
    LET Selected(loc) ==
            /\ "tags" \in DOMAIN loc
            /\ loc.tags # <<>>
            /\ \E j \in DOMAIN loc.tags : loc.tags[j] \in selected_tags
    IN  IF selected_tags = {} THEN locations ELSE SelectSeq(locations, Selected)
filter_locations_by_tags(locations, selected_tags) ==
    LET Selected(loc) ==
            /\ "tags" \in DOMAIN loc
            /\ loc.tags # <<>>
            /\ \E j \in DOMAIN loc.tags :
                 lower(loc.tags[j]) \in {lower(t) : t \in selected_tags}
    IN  IF selected_tags = {} THEN locations ELSE SelectSeq(locations, Selected)

\* the objects of a parsed LLM response: a name, with or without tags, with
\* or without a latitude of the LLM's own
ResponseLocations ==
    { [name |-> "x", tags |-> << <<"P">> >>],
      [name |-> "z"],
      [name |-> "z", latitude |-> 9] }

\* what geocoder.arcgis(name) can give for a name: its coordinates (g.ok),
\* no result, or an exception
arcgis(name) ==
    { [kind |-> "ok", lat |-> IF name = "x" THEN 1 ELSE 6,
                      lng |-> IF name = "x" THEN 12 ELSE 1],
      [kind |-> "not_ok"], [kind |-> "exception"] }

\* LocationExtractor._geocode_locations(locations), answers[i] being what
\* geocoder.arcgis gives for locations[i]
RECURSIVE geocode_locations_keeping(_, _)
geocode_locations_keeping(locations, answers) ==
    IF locations = <<>> THEN <<>>
    ELSE LET loc == Head(locations)
             g == Head(answers)
             rest == geocode_locations_keeping(Tail(locations), Tail(answers))
         IN  IF g.kind = "ok"
             THEN <<("latitude" :> g.lat) @@ ("longitude" :> g.lng) @@ loc>> \o rest
             ELSE <<loc>> \o rest
RECURSIVE geocode_locations(_, _)
geocode_locations(locations, answers) ==
    IF locations = <<>> THEN <<>>
    ELSE LET loc == Head(locations)
             g == Head(answers)
             rest == geocode_locations(Tail(locations), Tail(answers))
         IN  IF g.kind = "ok"
             THEN <<("latitude" :> g.lat) @@ ("longitude" :> g.lng) @@ loc>> \o rest
             ELSE rest

\* what extract_locations returns for a parsed response: the list
\* _geocode_locations makes of its locations, for every response and every
\* way the geocoder can answer
ExtractedLists ==
    UNION { { geocode_locations(locations, answers) :
                answers \in { a \in [DOMAIN locations ->
                                       UNION {arcgis(l.name) : l \in ResponseLocations}] :
                                \A i \in DOMAIN locations : a[i] \in arcgis(locations[i].name) } } :
            locations \in SeqsUpTo(ResponseLocations, MaxLocations) }

\* how a press of an "Extract from ..." button can go: a missing input or
\* text that could not be acquired, no Gemini key, extract_locations
\* returning [] for a failed LLM call or a response it cannot parse, or a
\* parsed response handed to _geocode_locations
ExtractOutcomes == {"no_text", "no_key", "llm_fails", "unparsed", "parsed"}

SessionNames == { <<"m">>, <<"n">> }

\* the options of the radio "What would you like to do with these locations?"
RadioOptions == {"Add to current map", "Create a new map"}

\* the session state of lines 41-48, with the MapGenerator() of line 46
InitSession ==
    /\ pc = "session"
    /\ api = "folium"
    /\ data_dir = <<>>
    /\ op = [kind |-> None]
    /\ last_saved = <<>>
    /\ succeeded = {}
    /\ n_saves = 0
    /\ session_locations = <<>>
    /\ current_map_name = NoName
    /\ MergeIdle
    /\ RenderIdle
    /\ GeoIdle
    /\ ExtractIdle
    /\ TagsIdle
    /\ RouteIdle

\* "Load Selected Map" taking over whatever load_map returned
LoadSelectedMap_unchecked ==
    /\ pc = "session"
    /\ \E files \in listdir_json(data_dir) :
         LET saved_maps == MapGenerator_get_saved_maps(files)
         IN  \E k \in DOMAIN saved_maps :
               LET selected_map == saved_maps[k]
                   locations == MapGenerator_load_map(data_dir, selected_map)
               IN  /\ op' = [kind |-> "load", name |-> selected_map, result |-> locations]
                   /\ session_locations' = locations
                   /\ current_map_name' = selected_map
    /\ UNCHANGED <<data_dir, n_saves, frameSession>>

\* sidebar, "Load Selected Map"
LoadSelectedMap ==
    /\ pc = "session"
    /\ \E files \in listdir_json(data_dir) :
         LET saved_maps == MapGenerator_get_saved_maps(files)
         IN  \E k \in DOMAIN saved_maps :
               LET selected_map == saved_maps[k]
                   locations == MapGenerator_load_map(data_dir, selected_map)
               IN  /\ op' = [kind |-> "load", name |-> selected_map, result |-> locations]
                   /\ IF locations # <<>>
                      THEN /\ session_locations' = locations
                           /\ current_map_name' = selected_map
                      ELSE UNCHANGED sessionVars
    /\ UNCHANGED <<data_dir, n_saves, frameSession>>

\* the `if extracted_locations:` branch of the three "Extract from ..."
\* buttons: the session's locations and current_map_name after it
use_extracted_deduplicating(locations, map_name, extracted_locations, action) ==
    LET Fresh(loc) == \A i \in DOMAIN locations : locations[i] # loc
    IN  IF locations # <<>> /\ map_name # NoName
        THEN IF action = "Add to current map"
             THEN [locations |-> locations \o SelectSeq(extracted_locations, Fresh),
                   current_map_name |-> map_name]
             ELSE [locations |-> extracted_locations, current_map_name |-> NoName]
        ELSE [locations |-> extracted_locations, current_map_name |-> map_name]
use_extracted(locations, map_name, extracted_locations, action) ==
    IF locations # <<>> /\ map_name # NoName
    THEN IF action = "Add to current map"
         THEN [locations |-> locations \o extracted_locations,
               current_map_name |-> map_name]
         ELSE [locations |-> extracted_locations, current_map_name |-> NoName]
    ELSE [locations |-> extracted_locations, current_map_name |-> map_name]

\* "Extract from Text", "Extract from Image", "Extract from URL" taking
\* over whatever the extraction gave
ExtractLocations_unchecked ==
    /\ pc = "session"
    /\ \E outcome \in ExtractOutcomes :
         \E extracted_locations \in (IF outcome = "parsed" THEN ExtractedLists ELSE {<<>>}) :
           LET asked == /\ extracted_locations # <<>>
                        /\ session_locations # <<>> /\ current_map_name # NoName
           IN  \E action \in (IF asked THEN RadioOptions ELSE {None}) :
                 LET after == use_extracted(session_locations, current_map_name,
                                            extracted_locations, action)
                 IN  /\ Len(session_locations) + Len(extracted_locations) <= MaxLocations
                     /\ op' = [kind |-> "extract", result |-> extracted_locations,
                               action |-> action]
                     /\ session_locations' = after.locations
                     /\ current_map_name' = after.current_map_name
    /\ UNCHANGED <<data_dir, n_saves, frameSession>>

\* "Extract from Text", "Extract from Image", "Extract from URL": a press
\* of the button, from the inputs to what is done with the list
\* extract_locations returned; the radio is asked only where it is shown
ExtractLocations ==
    /\ pc = "session"
    /\ \E outcome \in ExtractOutcomes :
         \E extracted_locations \in (IF outcome = "parsed" THEN ExtractedLists ELSE {<<>>}) :
           LET asked == /\ extracted_locations # <<>>
                        /\ session_locations # <<>> /\ current_map_name # NoName
           IN  \E action \in (IF asked THEN RadioOptions ELSE {None}) :
                 LET after == use_extracted(session_locations, current_map_name,
                                            extracted_locations, action)
                 IN  /\ Len(session_locations) + Len(extracted_locations) <= MaxLocations
                     /\ op' = [kind |-> "extract", result |-> extracted_locations,
                               action |-> action]
                     /\ IF extracted_locations # <<>>
                        THEN /\ session_locations' = after.locations
                             /\ current_map_name' = after.current_map_name
                        ELSE UNCHANGED sessionVars
    /\ UNCHANGED <<data_dir, n_saves, frameSession>>

\* "Save Map", with the tags selected in "Filter by tags" and the text of
\* "Map Name"
SaveMap ==
    /\ pc = "session" /\ n_saves < MaxSaves
    /\ session_locations # <<>>
    /\ \E selected_tags \in SUBSET get_unique_tags(session_locations),
          map_name \in SessionNames \cup {NoName}, io \in IoOutcomes :
         LET filtered_locations == filter_locations_by_tags(session_locations, selected_tags)
             r == create_map(data_dir, api, None, filtered_locations, map_name, io)
         IN  IF map_name = NoName
             THEN /\ op' = [kind |-> "save", name |-> map_name, ok |-> FALSE]
                  /\ UNCHANGED <<data_dir, current_map_name, n_saves>>
             ELSE /\ data_dir' = r.dir
                  /\ n_saves' = n_saves + 1
                  /\ op' = [kind |-> "save", name |-> map_name, ok |-> Len(r.ret) > 0]
                  /\ current_map_name' = IF Len(r.ret) > 0 THEN map_name
                                         ELSE current_map_name
    /\ UNCHANGED <<session_locations, frameSession>>

NextSession ==
    \/ LoadSelectedMap
    \/ ExtractLocations
    \/ SaveMap

SpecSession == InitSession /\ [][NextSession]_vars

(***************************************************************************)
(* Claims on the session controller                                        *)
(***************************************************************************)
\* the document of the name n is there and can be read
Readable(n) ==
    /\ n \o <<".json">> \in DOMAIN data_dir
    /\ data_dir[n \o <<".json">>].whole

(* C15: load of a name whose document is missing or malformed returns the empty list, and a press of "Load Selected Map" that gets the empty list leaves the session's locations and current_map_name as they were. *)
C15_FailedLoadLeavesSession ==
    /\ [](\A n \in SessionNames : ~Readable(n) => MapGenerator_load_map(data_dir, n) = <<>>)
    /\ []((Loaded /\ ~Readable(op.name)) => op.result = <<>>)
    /\ [][(op'.kind = "load" /\ op'.result = <<>>) => UNCHANGED sessionVars]_vars

\* "Load Selected Map" of a listed map whose document cannot be read, in a
\* session that holds locations under a name
C15_Witness ==
    /\ Loaded /\ ~Readable(op.name) /\ op.result = <<>>
    /\ session_locations # <<>> /\ current_map_name # NoName

(* C20: when "Save Map" succeeds, the document persisted under the map name is the session's full ordered place list, whether or not a tag filter is active, so a load of current_map_name returns the list the session holds. *)
C20_SaveMapPersistsFullList ==
    (pc = "session" /\ Saved /\ op.ok) =>
      /\ current_map_name = op.name
      /\ Readable(op.name)
      /\ json_load(data_dir[op.name \o <<".json">>]).value = session_locations
      /\ MapGenerator_load_map(data_dir, current_map_name) = session_locations

\* a press of an "Extract from ..." button has been handled
Extracted == op.kind = "extract"

\* C23: an extraction that produces no usable result (no text, a failed LLM
\* call, a response that cannot be parsed, every geocoding failing) leaves
\* the session's locations and current_map_name exactly as they were, and
\* the session goes on.
C23_FailedExtractionLeavesSession ==
    [][(op'.kind = "extract" /\ op'.result = <<>>) =>
          /\ UNCHANGED sessionVars
          /\ pc' = "session"]_vars

\* an extraction without result in a session that holds locations under a
\* name
C23_Witness ==
    /\ Extracted /\ op.result = <<>>
    /\ session_locations # <<>> /\ current_map_name # NoName
    /\ pc = "session"

\* C24: a successful extraction with result E replaces the locations by E
\* and leaves current_map_name when the session has no locations or no
\* current_map_name; otherwise "Add to current map" makes the locations L
\* followed by E and leaves current_map_name, and "Create a new map" makes
\* them E and current_map_name None.
C24_ExtractionResultRule ==
    [][(op'.kind = "extract" /\ op'.result # <<>>) =>
          IF session_locations = <<>> \/ current_map_name = NoName
          THEN /\ session_locations' = op'.result
               /\ current_map_name' = current_map_name
               /\ op'.action = None
          ELSE IF op'.action = "Add to current map"
          THEN /\ session_locations' = session_locations \o op'.result
               /\ current_map_name' = current_map_name
          ELSE /\ op'.action = "Create a new map"
               /\ session_locations' = op'.result
               /\ current_map_name' = NoName]_vars

\* locations were added to a named map that already held one of them: the
\* list holds it twice
C24_Witness ==
    /\ Extracted /\ op.action = "Add to current map"
    /\ current_map_name # NoName
    /\ Len(session_locations) = 2
    /\ session_locations[1] = session_locations[2]
    /\ op.result = <<session_locations[2]>>

\* a new map was created in place of a named one
C24_WitnessNewMap ==
    /\ Extracted /\ op.action = "Create a new map"
    /\ current_map_name = NoName
    /\ session_locations = op.result /\ session_locations # <<>>

\* the place carries both coordinates
Geocoded(p) == {"latitude", "longitude"} \subseteq DOMAIN p

\* the documents of the data directory that can be read
Documents == {f \in DOMAIN data_dir : endswith(f, ".json") /\ data_dir[f].whole}

\* C26: in every state of the session, whatever extractions, additions, new
\* maps, loads and saves came before, every place of the session's list and
\* every place of every saved document carries a latitude and a longitude.
C26_PlacesCarryCoordinates ==
    /\ \A i \in DOMAIN session_locations : Geocoded(session_locations[i])
    /\ \A f \in Documents :
         \A i \in DOMAIN json_load(data_dir[f]).value :
           Geocoded(json_load(data_dir[f]).value[i])

\* a saved document with a place in it was loaded into the session
C26_Witness ==
    /\ Loaded /\ op.result # <<>>
    /\ session_locations = op.result
    /\ \E f \in Documents : json_load(data_dir[f]).value = session_locations

\* C27: whenever current_map_name is set, a saved document exists under
\* exactly that name: its file is there and holds a place list.  The name
\* changes only by a successful load or a successful save, which set it, and
\* by "Create a new map", which clears it; a failed save or load leaves it.
C27_NamedMapHasDocument ==
    /\ [](current_map_name # NoName => Readable(current_map_name))
    /\ [][current_map_name' # current_map_name =>
            \/ op'.kind = "load" /\ op'.result # <<>> /\ current_map_name' = op'.name
            \/ op'.kind = "save" /\ op'.ok /\ current_map_name' = op'.name
            \/ op'.kind = "extract" /\ op'.action = "Create a new map"
                                    /\ current_map_name' = NoName]_vars

(***************************************************************************)
(* Geocoding: utils/map_handler.py geocode_place and geocode_places,       *)
(* utils/location_extractor.py LocationExtractor._geocode_locations.       *)
(* One action is one turn of the loop over the places.                     *)
(***************************************************************************)
MaxBatch == 3

GeoLats == {0, 7}
GeoLngs == {3}

\* what the request of geocode_place comes to: the status of the answer
\* ("OK_no_results": status OK with an empty list of results), or the
\* exception of requests.get or of reading the answer
GoogleAnswers ==
    {[kind |-> "OK", lat |-> a, lng |-> b] : a \in GeoLats, b \in GeoLngs}
    \cup {[kind |-> k] : k \in {"OK_no_results", "ZERO_RESULTS", "REQUEST_DENIED",
                                "transport_error", "parse_error"}}

\* map_handler.geocode_place(place_name); found is FALSE where it returns None
geocode_place(place_name, api_key, answer) ==
    IF ~api_key THEN [found |-> FALSE]
    ELSE IF answer.kind = "OK"
    THEN [found |-> TRUE,
          place |-> [name |-> place_name, formatted_address |-> "address",
                     lat |-> answer.lat, lng |-> answer.lng,
                     place_id |-> "id", types |-> <<>>]]
    ELSE [found |-> FALSE]

\* what geocoder.arcgis(name) comes to: g.ok, not g.ok, or an exception
ArcgisAnswers ==
    {[kind |-> "ok", lat |-> a, lng |-> b] : a \in GeoLats, b \in GeoLngs}
    \cup {[kind |-> "not_ok"], [kind |-> "exception"]}

\* places as combine_place_extractions returns them
HandlerBatchPlaces ==
    { [name |-> "A", type |-> "GPE", mentions |-> 1, sentiment |-> "neutral"],
      [name |-> "B", type |-> "LOC", mentions |-> 2, sentiment |-> "positive"] }

\* locations as the prompt of extract_locations asks for them
ExtractorBatchPlaces ==
    { [name |-> "A", tags |-> << <<"P">> >>],
      [name |-> "B", tags |-> <<>>] }

InitGeocode ==
    /\ pc = "geocoding"
    /\ \/ /\ geo_fn = "geocode_places"
          /\ geo_key \in BOOLEAN
          /\ geo_in \in SeqsUpTo(HandlerBatchPlaces, MaxBatch)
       \/ /\ geo_fn = "_geocode_locations"
          /\ geo_key = FALSE
          /\ geo_in \in SeqsUpTo(ExtractorBatchPlaces, MaxBatch)
    /\ geo_i = 0
    /\ geo_out = <<>>
    /\ geo_log = <<>>
    /\ data_dir = <<>>
    /\ MergeIdle
    /\ RenderIdle
    /\ PersistIdle
    /\ SessionIdle
    /\ ExtractIdle
    /\ TagsIdle
    /\ RouteIdle

\* geocode_places: one turn of `for i, place in enumerate(places)`
GeocodePlacesStep ==
    /\ pc = "geocoding" /\ geo_fn = "geocode_places" /\ geo_i < Len(geo_in)
    /\ \E answer \in GoogleAnswers :
         LET i == geo_i
             place == geo_in[i + 1]
             geocoded_place == geocode_place(place.name, geo_key, answer)
             request == IF geo_key
                        THEN <<[ev |-> "request", name |-> place.name, answer |-> answer]>>
                        ELSE <<>>
             sleep == IF geocoded_place.found /\ i < Len(geo_in) - 1
                      THEN <<[ev |-> "sleep"]>> ELSE <<>>
         IN  /\ geo_out' = IF geocoded_place.found
                           THEN Append(geo_out, geocoded_place.place @@ place)
                           ELSE geo_out
             /\ geo_log' = geo_log \o request \o sleep
             /\ geo_i' = i + 1
    /\ UNCHANGED <<pc, geo_fn, geo_key, geo_in, frameGeo>>

\* _geocode_locations appending in front
GeocodeLocationsStep_reversed ==
    /\ pc = "geocoding" /\ geo_fn = "_geocode_locations" /\ geo_i < Len(geo_in)
    /\ \E answer \in ArcgisAnswers :
         LET loc == geo_in[geo_i + 1]
         IN  /\ geo_out' = IF answer.kind = "ok"
                           THEN <<("latitude" :> answer.lat) @@ ("longitude" :> answer.lng) @@ loc>>
                                \o geo_out
                           ELSE geo_out
             /\ geo_log' = Append(geo_log, [ev |-> "request", name |-> loc.name,
                                            answer |-> answer])
             /\ geo_i' = geo_i + 1
    /\ UNCHANGED <<pc, geo_fn, geo_key, geo_in, frameGeo>>

\* _geocode_locations: one turn of `for loc in locations`; loc is changed in
\* place and appended, geo_in stays the list as it was handed in
GeocodeLocationsStep ==
    /\ pc = "geocoding" /\ geo_fn = "_geocode_locations" /\ geo_i < Len(geo_in)
    /\ \E answer \in ArcgisAnswers :
         LET loc == geo_in[geo_i + 1]
         IN  /\ geo_out' = IF answer.kind = "ok"
                           THEN Append(geo_out, ("latitude" :> answer.lat) @@
                                                ("longitude" :> answer.lng) @@ loc)
                           ELSE geo_out
             /\ geo_log' = Append(geo_log, [ev |-> "request", name |-> loc.name,
                                            answer |-> answer])
             /\ geo_i' = geo_i + 1
    /\ UNCHANGED <<pc, geo_fn, geo_key, geo_in, frameGeo>>

\* `return geocoded_places`, `return enriched_locations`
GeocodeReturn ==
    /\ pc = "geocoding" /\ geo_i = Len(geo_in)
    /\ pc' = "geocoded"
    /\ UNCHANGED <<geoVars, frameGeo>>

NextGeocode ==
    \/ GeocodePlacesStep
    \/ GeocodeLocationsStep
    \/ GeocodeReturn

SpecGeocode == InitGeocode /\ [][NextGeocode]_vars

(***************************************************************************)
(* Claims on geocoding                                                     *)
(***************************************************************************)
Requests == SelectSeq(geo_log, LAMBDA e : e.ev = "request")

\* the requests whose answer gave coordinates
Hits == {k \in DOMAIN Requests : Requests[k].answer.kind \in {"OK", "ok"}}

\* the j-th smallest element of the set of numbers S
Nth(S, j) == CHOOSE k \in S : Cardinality({h \in S : h < k}) = j - 1

LatKeyOf(fn) == IF fn = "geocode_places" THEN "lat" ELSE "latitude"
LngKeyOf(fn) == IF fn = "geocode_places" THEN "lng" ELSE "longitude"

C17_DelayBetweenCalls ==
    (pc = "geocoded" /\ geo_fn = "geocode_places" /\ geo_key) =>
      /\ Len(Requests) = Len(geo_in)
      /\ \A k \in DOMAIN Requests : Requests[k].name = geo_in[k].name
      /\ \A i \in DOMAIN geo_log :
           IF geo_log[i].ev = "request"
           THEN i = Len(geo_log) \/ geo_log[i + 1].ev = "sleep"
           ELSE i < Len(geo_log) /\ geo_log[i + 1].ev = "request"

(***************************************************************************)
(* Extraction: utils/location_extractor.py LocationExtractor.__init__ and  *)
(* extract_locations, utils/place_extraction.py extract_places_with_gemini.*)
(* The text of an LLM response is a sequence of tokens: the brackets of an *)
(* array, an object, a word of prose, a blank, a code fence and the word   *)
(* json.                                                                   *)
(***************************************************************************)
MaxText == 5

Tokens == {"[", "]", "{}", "w", " ", "fence", "json"}

\* the dict that the object of a response stands for
ResponseObject == [name |-> "A", tags |-> << <<"P">> >>]

\* json.loads(text): ok is FALSE where it raises json.JSONDecodeError
json_loads(text) ==
    LET NotBlank(t) == t \notin Whitespace
        s == SelectSeq(text, NotBlank)
    IN  IF s = <<"[", "]">> THEN [ok |-> TRUE, kind |-> "list", value |-> <<>>]
        ELSE IF s = <<"[", "{}", "]">>
        THEN [ok |-> TRUE, kind |-> "list", value |-> <<ResponseObject>>]
        ELSE IF s = <<"{}">> THEN [ok |-> TRUE, kind |-> "dict", value |-> <<>>]
        ELSE [ok |-> FALSE]

\* re.search(r'\[\s*{.*}\s*\]', content, re.DOTALL): the leftmost "[" that
\* blanks and an object follow, up to the last "]" that follows an object
\* and blanks
re_search(content) ==
    LET n == Len(content)
        Blank(a, b) == \A r \in a..b : content[r] \in Whitespace
        Opens(i) == content[i] = "[" /\ \E p \in (i + 1)..n :
                                          content[p] = "{}" /\ Blank(i + 1, p - 1)
        Closes(i, e) == content[e] = "]" /\ \E q \in (i + 1)..(e - 1) :
                                              content[q] = "{}" /\ Blank(q + 1, e - 1)
        starts == {i \in 1..n : Opens(i) /\ \E e \in (i + 1)..n : Closes(i, e)}
        first == CHOOSE i \in starts : \A j \in starts : i <= j
        ends == {e \in (first + 1)..n : Closes(first, e)}
        last == CHOOSE e \in ends : \A j \in ends : j <= e
    IN  IF starts = {} THEN [found |-> FALSE]
        ELSE [found |-> TRUE, group |-> SubSeq(content, first, last)]

\* extract_locations, lines 94-110: from response.text to the parsed list;
\* parsed is FALSE where the function returns [] without geocoding
parse_response(content) ==
    LET json_match == re_search(content)
        json_str == IF json_match.found THEN json_match.group ELSE strip(content)
        looks_like_json == /\ json_str # <<>>
                           /\ Head(json_str) = "[" /\ json_str[Len(json_str)] = "]"
    IN  IF ~json_match.found /\ ~looks_like_json THEN [parsed |-> FALSE]
        ELSE IF json_loads(json_str).ok
        THEN [parsed |-> TRUE, locations |-> json_loads(json_str).value]
        ELSE [parsed |-> FALSE]

\* the part of text before the first fence, all of it if there is none
before_fence(text) ==
    LET fences == {i \in DOMAIN text : text[i] = "fence"}
    IN  IF fences = {} THEN text
        ELSE SubSeq(text, 1, (CHOOSE i \in fences : \A j \in fences : i <= j) - 1)

\* extract_places_with_gemini, lines 100-104: the text inside the first code
\* fence, with or without the word json after the fence
fenced(response_text) ==
    LET n == Len(response_text)
        json_fences == {i \in 1..(n - 1) : response_text[i] = "fence"
                                           /\ response_text[i + 1] = "json"}
        fences == {i \in 1..n : response_text[i] = "fence"}
        j == CHOOSE i \in json_fences : \A k \in json_fences : i <= k
        f == CHOOSE i \in fences : \A k \in fences : i <= k
    IN  IF json_fences # {}
        THEN strip(before_fence(SubSeq(response_text, j + 2, n)))
        ELSE IF fences # {}
        THEN strip(before_fence(SubSeq(response_text, f + 1, n)))
        ELSE response_text

\* extract_places_with_gemini, lines 96-110: what is returned for a response
gemini_places_of(response_text) ==
    LET r == json_loads(fenced(response_text))
    IN  IF r.ok THEN [kind |-> r.kind, value |-> r.value]
        ELSE [kind |-> "list", value |-> <<>>]

EmptyList == [kind |-> "list", value |-> <<>>]

\* LocationExtractor.__init__: self.model after the constructor
init_model(api_key, configured) ==
    IF ~api_key THEN "unset"
    ELSE IF configured THEN "model" ELSE None

\* configure_gemini(): the model, None without a key
configure_gemini(api_key) == IF ~api_key THEN None ELSE "model"

InitExtract ==
    /\ pc = "constructed"
    /\ ex_key \in BOOLEAN
    /\ \/ /\ ex_fn = "extract_locations"
          /\ \E configured \in BOOLEAN : ex_model = init_model(ex_key, configured)
       \/ /\ ex_fn = "extract_places_with_gemini"
          /\ ex_model = None
    /\ ex_content = <<>>
    /\ ex_ret = [kind |-> None]
    /\ ex_llm_calls = 0
    /\ data_dir = <<>>
    /\ GeoIdle
    /\ MergeIdle
    /\ RenderIdle
    /\ PersistIdle
    /\ SessionIdle
    /\ TagsIdle
    /\ RouteIdle

\* extract_locations(text), up to the call of generate_content; reading
\* self.model while the attribute is missing raises AttributeError
ExtractLocationsCall ==
    /\ pc = "constructed" /\ ex_fn = "extract_locations"
    /\ IF ex_model = "unset"
       THEN pc' = "raised" /\ UNCHANGED <<ex_ret, ex_llm_calls>>
       ELSE IF ex_model = None
       THEN pc' = "returned" /\ ex_ret' = EmptyList /\ UNCHANGED ex_llm_calls
       ELSE pc' = "llm" /\ ex_llm_calls' = ex_llm_calls + 1 /\ UNCHANGED ex_ret
    /\ UNCHANGED <<ex_fn, ex_key, ex_model, ex_content, geoVars, frameExtract>>

\* extract_places_with_gemini(text), up to the call of generate_content
ExtractPlacesCall ==
    /\ pc = "constructed" /\ ex_fn = "extract_places_with_gemini"
    /\ \E text_given \in BOOLEAN :
         LET model == configure_gemini(ex_key)
         IN  IF ~text_given
             THEN pc' = "returned" /\ ex_ret' = EmptyList /\ UNCHANGED <<ex_model, ex_llm_calls>>
             ELSE IF model = None
             THEN pc' = "returned" /\ ex_ret' = EmptyList /\ ex_model' = model
                  /\ UNCHANGED ex_llm_calls
             ELSE pc' = "llm" /\ ex_model' = model /\ ex_llm_calls' = ex_llm_calls + 1
                  /\ UNCHANGED ex_ret
    /\ UNCHANGED <<ex_fn, ex_key, ex_content, geoVars, frameExtract>>

\* generate_content raises, or response.text does
GenerateContentFails ==
    /\ pc = "llm"
    /\ pc' = "returned"
    /\ ex_ret' = EmptyList
    /\ UNCHANGED <<ex_fn, ex_key, ex_model, ex_content, ex_llm_calls, geoVars, frameExtract>>

\* the response arrives and is parsed; extract_locations goes on to
\* _geocode_locations(locations) when it has a list
GenerateContent ==
    /\ pc = "llm"
    /\ \E content \in SeqsUpTo(Tokens, MaxText) :
         /\ ex_content' = content
         /\ IF ex_fn = "extract_locations"
            THEN LET r == parse_response(content)
                 IN  IF r.parsed
                     THEN /\ pc' = "geocoding"
                          /\ geo_fn' = "_geocode_locations"
                          /\ geo_in' = r.locations
                          /\ UNCHANGED <<ex_ret, geo_key, geo_i, geo_out, geo_log>>
                     ELSE /\ pc' = "returned"
                          /\ ex_ret' = EmptyList
                          /\ UNCHANGED geoVars
            ELSE /\ pc' = "returned"
                 /\ ex_ret' = gemini_places_of(content)
                 /\ UNCHANGED geoVars
    /\ UNCHANGED <<ex_fn, ex_key, ex_model, ex_llm_calls, frameExtract>>

\* `return enriched_locations`
ExtractReturn_ungeocoded ==
    /\ pc = "geocoding" /\ ex_fn = "extract_locations" /\ geo_i = 0
    /\ pc' = "returned"
    /\ ex_ret' = [kind |-> "list", value |-> geo_in]
    /\ UNCHANGED <<ex_fn, ex_key, ex_model, ex_content, ex_llm_calls, geoVars, frameExtract>>
ExtractReturn ==
    /\ pc = "geocoding" /\ ex_fn = "extract_locations" /\ geo_i = Len(geo_in)
    /\ pc' = "returned"
    /\ ex_ret' = [kind |-> "list", value |-> geo_out]
    /\ UNCHANGED <<ex_fn, ex_key, ex_model, ex_content, ex_llm_calls, geoVars, frameExtract>>

NextExtract ==
    \/ ExtractLocationsCall
    \/ ExtractPlacesCall
    \/ GenerateContentFails
    \/ GenerateContent
    \/ GeocodeLocationsStep
    \/ ExtractReturn

SpecExtract == InitExtract /\ [][NextExtract]_vars

(***************************************************************************)
(* Claims about extraction.                                                *)
(***************************************************************************)
\* C18: a LocationExtractor constructed with no API key is usable: every
\* extract_locations(text) call on it returns the empty list, without
\* raising and without any LLM call or geocoding call.
C18_KeylessExtractorReturnsEmpty ==
    (ex_fn = "extract_locations" /\ ~ex_key /\ pc # "constructed")
        => /\ pc = "returned"
           /\ ex_ret = [kind |-> "list", value |-> <<>>]
           /\ ex_llm_calls = 0
           /\ geo_log = <<>>

\* the token positions i..j of t that hold one array of objects and nothing else
ArrayAt(t, i, j) ==
    /\ t[i] = "[" /\ t[j] = "]"
    /\ \A k \in (i + 1)..(j - 1) : t[k] \in {"{}", " "}
    /\ Cardinality({k \in (i + 1)..(j - 1) : t[k] = "{}"}) = 1

ContainsArray(t) == \E i, j \in DOMAIN t : i < j /\ ArrayAt(t, i, j)

\* the response after whose handling the function returned
Handled == pc = "returned" /\ ex_llm_calls > 0

\* C19: whatever the text of the LLM response, its handling ends with the
\* parsed list or with the empty list and never with an unhandled error: a
\* response that is or contains a well-formed array of objects yields that
\* array, the others ("[]", malformed JSON, no JSON) yield the empty list,
\* and geocoding is attempted only when parsing succeeded.
C19_ResponseYieldsListOrEmpty ==
    /\ ex_llm_calls > 0 => pc # "raised"
    /\ Handled =>
         /\ ex_ret.kind = "list"
         /\ IF ContainsArray(ex_content)
            THEN [k \in DOMAIN ex_ret.value |-> ex_ret.value[k].name] = <<"A">>
            ELSE ex_ret.value = <<>>
    /\ geo_log # <<>> => ContainsArray(ex_content)

(***************************************************************************)
(* Tag filtering: app.py get_unique_tags and filter_locations_by_tags,     *)
(* called on their own and through the "Filter by tags" multiselect of     *)
(* main.  A tag is a sequence of characters; the list of selected tags is  *)
(* kept as the set of its elements.                                        *)
(***************************************************************************)
TagValues == { <<"P">>, <<"p">>, <<"R">>, <<"r">>, <<"q">> }

TagPlaces ==
    { [name |-> "x", latitude |-> 1, longitude |-> 12, tags |-> << <<"P">> >>],
      [name |-> "y", latitude |-> 1, longitude |-> 12, tags |-> << <<"p">>, <<"R">> >>],
      [name |-> "v", latitude |-> 1, longitude |-> 12, tags |-> << <<"r">> >>],
      [name |-> "w", latitude |-> 1, longitude |-> 12, tags |-> <<>>],
      [name |-> "z", latitude |-> 6, longitude |-> 1] }

InitTags ==
    /\ pc = "tags"
    /\ tag_locations \in SeqsUpTo(TagPlaces, MaxLocations)
    /\ tag_selected \in SUBSET TagValues
    /\ tag_unique = {}
    /\ tag_filtered = <<>>
    /\ data_dir = <<>>
    /\ MergeIdle
    /\ RenderIdle
    /\ PersistIdle
    /\ SessionIdle
    /\ GeoIdle
    /\ ExtractIdle
    /\ RouteIdle

\* unique_tags = get_unique_tags(st.session_state.locations)
GetUniqueTags ==
    /\ pc = "tags"
    /\ tag_unique' = get_unique_tags(tag_locations)
    /\ pc' = "offered"
    /\ UNCHANGED <<tag_locations, tag_selected, tag_filtered, frameTags>>

\* selected_tags = st.multiselect("Filter by tags", unique_tags)
Multiselect ==
    /\ pc = "offered"
    /\ tag_selected' \in SUBSET tag_unique
    /\ pc' = "selected"
    /\ UNCHANGED <<tag_locations, tag_unique, tag_filtered, frameTags>>

\* filtered_locations = filter_locations_by_tags(locations, selected_tags)
FilterLocationsByTags ==
    /\ pc \in {"tags", "selected"}
    /\ tag_filtered' = filter_locations_by_tags(tag_locations, tag_selected)
    /\ pc' = "filtered"
    /\ UNCHANGED <<tag_locations, tag_selected, tag_unique, frameTags>>

NextTags == GetUniqueTags \/ Multiselect \/ FilterLocationsByTags

SpecTags == InitTags /\ [][NextTags]_vars

(***************************************************************************)
(* Claims about tag filtering.                                             *)
(***************************************************************************)
\* the location has a tag that equals a selected tag when case is ignored
HasSelectedTag(loc) ==
    /\ "tags" \in DOMAIN loc
    /\ \E j \in DOMAIN loc.tags : \E t \in tag_selected : SameIgnoringCase(loc.tags[j], t)

\* C30: with no tag selected filter_locations_by_tags returns the whole
\* list; otherwise it returns, in the original order, exactly the locations
\* that have a tag equal to a selected tag when case is ignored; and
\* filtering by a single tag that get_unique_tags returned for the list
\* never gives the empty list.
C30_FilterSelectsByTag ==
    pc = "filtered" =>
      /\ tag_selected = {} => tag_filtered = tag_locations
      /\ tag_selected # {} => tag_filtered = SelectSeq(tag_locations, HasSelectedTag)
      /\ \A t \in tag_unique : tag_selected = {t} => tag_filtered # <<>>

\* two locations, one offered tag selected: the filter keeps the one
\* location whose tag differs from the selected tag in case only
C30_Witness ==
    /\ pc = "filtered"
    /\ Len(tag_locations) = 2
    /\ \E t \in tag_unique : tag_selected = {t}
    /\ Len(tag_filtered) = 1
    /\ \A j \in DOMAIN tag_filtered[1].tags : tag_filtered[1].tags[j] \notin tag_selected

(***************************************************************************)
(* Routing: utils/map_handler.py get_route.  The JSON of the provider is a *)
(* dict of which any key can be missing; a KeyError or an IndexError on    *)
(* the way through it is an exception, as is a failed request or a body    *)
(* that is not JSON.                                                       *)
(***************************************************************************)
MaxSteps == 2

\* the steps a leg can list; the third lacks its duration
RouteSteps ==
    { [html_instructions |-> "a", distance |-> "1 km", duration |-> "1 min"],
      [html_instructions |-> "b", distance |-> "2 km", duration |-> "2 min"],
      [html_instructions |-> "c", distance |-> "3 km"] }

\* the legs of a route: a first leg with any steps, with or without its end
\* address, and a following leg to another address
RouteLegs ==
    {[distance |-> "3 km", duration |-> "3 min", start_address |-> "A", end_address |-> "B",
      steps |-> s] : s \in SeqsUpTo(RouteSteps, MaxSteps)}
    \cup {[distance |-> "3 km", duration |-> "3 min", start_address |-> "A",
           steps |-> <<>>]}

NextLeg ==
    [distance |-> "9 km", duration |-> "9 min", start_address |-> "B", end_address |-> "C",
     steps |-> <<[html_instructions |-> "z", distance |-> "9 km", duration |-> "9 min"]>>]

RouteLegLists == {<<>>} \cup {<<l>> : l \in RouteLegs} \cup {<<l, NextLeg>> : l \in RouteLegs}

Routes ==
    {[legs |-> ls, overview_polyline |-> "xyz"] : ls \in RouteLegLists}
    \cup {[legs |-> <<NextLeg>>]}

OtherRoute == [legs |-> <<NextLeg>>, overview_polyline |-> "uvw"]

RouteLists == {<<>>} \cup {<<r>> : r \in Routes} \cup {<<r, OtherRoute>> : r \in Routes}

\* response.json(): the dict of the Directions API, or what is left of it
RouteResponses ==
    {[status |-> s, routes |-> rs] : s \in {"OK", "ZERO_RESULTS"}, rs \in RouteLists}
    \cup {[status |-> "OK"], [routes |-> <<>>]}

RoutePlaces ==
    { [name |-> "x", lat |-> 1, lng |-> 12],
      [name |-> "y", lat |-> 6],
      [name |-> "z", latitude |-> 6, longitude |-> 1] }

RouteWaypoints == { <<>>, <<[name |-> "x", lat |-> 1, lng |-> 12]>>, <<[name |-> "y", lat |-> 6]>> }

RouteModes == {"driving", "walking"}

\* the place has the keys get_route reads
has_lat_lng(p) == {"lat", "lng"} \subseteq DOMAIN p

\* lines 394-404 raise no KeyError: the URL of the request can be built
can_build_url(args) ==
    /\ has_lat_lng(args.origin)
    /\ has_lat_lng(args.destination)
    /\ \A i \in DOMAIN args.waypoints : has_lat_lng(args.waypoints[i])

\* the parameters of the URL
route_url(args) ==
    [origin |-> <<args.origin.lat, args.origin.lng>>,
     destination |-> <<args.destination.lat, args.destination.lng>>,
     waypoints |-> [i \in DOMAIN args.waypoints |->
                      <<args.waypoints[i].lat, args.waypoints[i].lng>>],
     mode |-> args.mode]

\* one element of the list comprehension over leg["steps"]; ok is FALSE
\* where a key is missing
route_step(step) ==
    IF {"html_instructions", "distance", "duration"} \subseteq DOMAIN step
    THEN [ok |-> TRUE, value |-> [instruction |-> step.html_instructions,
                                  distance |-> step.distance,
                                  duration |-> step.duration]]
    ELSE [ok |-> FALSE]

\* lines 409-431 on the dict of the response: the returned dict, or
\* ok = FALSE for None (the else branch, or an exception caught at line 432)
route_of_last_leg(data) ==
    IF ~({"status", "routes"} \subseteq DOMAIN data) THEN [ok |-> FALSE]
    ELSE IF ~(data.status = "OK" /\ data.routes # <<>>) THEN [ok |-> FALSE]
    ELSE LET route == data.routes[1] IN
         IF "legs" \notin DOMAIN route \/ route.legs = <<>> THEN [ok |-> FALSE]
         ELSE LET leg == route.legs[Len(route.legs)] IN
              IF ~({"distance", "duration", "start_address", "end_address", "steps"}
                     \subseteq DOMAIN leg)
              THEN [ok |-> FALSE]
              ELSE IF \E i \in DOMAIN leg.steps : ~route_step(leg.steps[i]).ok
              THEN [ok |-> FALSE]
              ELSE IF "overview_polyline" \notin DOMAIN route THEN [ok |-> FALSE]
              ELSE [ok |-> TRUE,
                    distance |-> leg.distance,
                    duration |-> leg.duration,
                    start_address |-> leg.start_address,
                    end_address |-> leg.end_address,
                    steps |-> [i \in DOMAIN leg.steps |-> route_step(leg.steps[i]).value],
                    polyline |-> route.overview_polyline]
route_of(data) ==
    IF ~({"status", "routes"} \subseteq DOMAIN data) THEN [ok |-> FALSE]
    ELSE IF ~(data.status = "OK" /\ data.routes # <<>>) THEN [ok |-> FALSE]
    ELSE LET route == data.routes[1] IN
         IF "legs" \notin DOMAIN route \/ route.legs = <<>> THEN [ok |-> FALSE]
         ELSE LET leg == route.legs[1] IN
              IF ~({"distance", "duration", "start_address", "end_address", "steps"}
                     \subseteq DOMAIN leg)
              THEN [ok |-> FALSE]
              ELSE IF \E i \in DOMAIN leg.steps : ~route_step(leg.steps[i]).ok
              THEN [ok |-> FALSE]
              ELSE IF "overview_polyline" \notin DOMAIN route THEN [ok |-> FALSE]
              ELSE [ok |-> TRUE,
                    distance |-> leg.distance,
                    duration |-> leg.duration,
                    start_address |-> leg.start_address,
                    end_address |-> leg.end_address,
                    steps |-> [i \in DOMAIN leg.steps |-> route_step(leg.steps[i]).value],
                    polyline |-> route.overview_polyline]

InitRoute ==
    /\ pc = "route"
    /\ route_key \in BOOLEAN
    /\ route_args \in [origin : RoutePlaces, destination : RoutePlaces,
                       waypoints : RouteWaypoints, mode : RouteModes]
    /\ route_data = <<>>
    /\ route_ret = [ok |-> FALSE]
    /\ route_log = <<>>
    /\ data_dir = <<>>
    /\ MergeIdle
    /\ RenderIdle
    /\ PersistIdle
    /\ SessionIdle
    /\ GeoIdle
    /\ ExtractIdle
    /\ TagsIdle

\* get_route up to requests.get(url): None without a key, None when the
\* URL cannot be built, the request otherwise
GetRouteCall ==
    /\ pc = "route"
    /\ IF ~route_key \/ ~can_build_url(route_args)
       THEN /\ pc' = "returned"
            /\ UNCHANGED route_log
       ELSE /\ pc' = "requested"
            /\ route_log' = Append(route_log, route_url(route_args))
    /\ route_ret' = [ok |-> FALSE]
    /\ UNCHANGED <<route_key, route_args, route_data, frameRoute>>

\* requests.get or response.json() raises
GetRouteRequestFails ==
    /\ pc = "requested"
    /\ pc' = "returned"
    /\ route_ret' = [ok |-> FALSE]
    /\ UNCHANGED <<route_key, route_args, route_data, route_log, frameRoute>>

\* the response arrives: get_route from `data = response.json()` to its return
GetRouteResponse ==
    /\ pc = "requested"
    /\ \E data \in RouteResponses :
         /\ route_data' = data
         /\ route_ret' = route_of(data)
    /\ pc' = "returned"
    /\ UNCHANGED <<route_key, route_args, route_log, frameRoute>>

NextRoute == GetRouteCall \/ GetRouteRequestFails \/ GetRouteResponse

SpecRoute == InitRoute /\ [][NextRoute]_vars

(***************************************************************************)
(* Claims about routing.                                                   *)
(***************************************************************************)
\* the response names a route: status OK and a route list that is not empty
NamesRoute(data) ==
    /\ "status" \in DOMAIN data /\ data.status = "OK"
    /\ "routes" \in DOMAIN data /\ data.routes # <<>>

\* the first route of the response has a first leg with its distance,
\* duration, addresses and steps, every step has its three fields, and the
\* route has its polyline
WellFormedRoute(data) ==
    LET r == data.routes[1] IN
    /\ "legs" \in DOMAIN r /\ r.legs # <<>>
    /\ "overview_polyline" \in DOMAIN r
    /\ \A k \in {"distance", "duration", "start_address", "end_address", "steps"} :
         k \in DOMAIN r.legs[1]
    /\ \A i \in DOMAIN r.legs[1].steps :
         \A k \in {"html_instructions", "distance", "duration"} :
           k \in DOMAIN r.legs[1].steps[i]

\* C22: get_route reports failure as the value None and never raises.
\* Without the credential no request is sent; an origin or destination
\* without lat or lng, a status that is not OK, an empty route list and a
\* malformed response each give None.  A returned route carries the
\* distance, duration and addresses of the first leg of the first route and
\* that leg's steps in the provider's order.
C22_RouteOrFailure ==
    /\ pc \in {"route", "requested", "returned"}
    /\ ~route_key => route_log = <<>>
    /\ (~has_lat_lng(route_args.origin) \/ ~has_lat_lng(route_args.destination))
         => (route_log = <<>> /\ ~route_ret.ok)
    /\ pc = "returned" =>
         /\ (route_log = <<>> \/ ~NamesRoute(route_data)) => ~route_ret.ok
         /\ (NamesRoute(route_data) /\ ~WellFormedRoute(route_data)) => ~route_ret.ok
         /\ route_ret.ok =>
              LET leg == route_data.routes[1].legs[1] IN
              /\ route_ret.distance = leg.distance
              /\ route_ret.duration = leg.duration
              /\ route_ret.start_address = leg.start_address
              /\ route_ret.end_address = leg.end_address
              /\ Len(route_ret.steps) = Len(leg.steps)
              /\ \A i \in DOMAIN leg.steps :
                   /\ route_ret.steps[i].instruction = leg.steps[i].html_instructions
                   /\ route_ret.steps[i].distance = leg.steps[i].distance
                   /\ route_ret.steps[i].duration = leg.steps[i].duration

\* a route of two legs whose first leg has two different steps
C22_Witness ==
    /\ pc = "returned" /\ route_ret.ok
    /\ Len(route_data.routes[1].legs) = 2
    /\ Len(route_ret.steps) = 2
    /\ route_ret.steps[1] # route_ret.steps[2]
    /\ route_ret.end_address = "B"

(***************************************************************************)
(* The pipeline of one press of "Extract from Text" (app.py main):         *)
(* extract_locations with its LLM call, the parsing of the response and    *)
(* _geocode_locations, then the take-over of the result into the session,  *)
(* the inline preview and "Save Map".                                      *)
(***************************************************************************)
InitPipeline ==
    /\ pc = "constructed"
    /\ ex_fn = "extract_locations"
    /\ ex_key = TRUE
    /\ \E configured \in BOOLEAN : ex_model = init_model(ex_key, configured)
    /\ ex_content = <<>>
    /\ ex_ret = [kind |-> None]
    /\ ex_llm_calls = 0
    /\ api = "folium"
    /\ op = [kind |-> None]
    /\ last_saved = <<>>
    /\ succeeded = {}
    /\ n_saves = 0
    /\ data_dir = <<>>
    /\ GeoIdle
    /\ MergeIdle
    /\ RenderIdle
    /\ SessionIdle
    /\ TagsIdle
    /\ RouteIdle

\* `if extracted_locations:` ... `else: st.warning(...)` on what
\* extract_locations returned, in a session without locations
PipelineTakeOver ==
    /\ pc = "returned"
    /\ LET extracted_locations == ex_ret.value
           after == use_extracted(session_locations, current_map_name,
                                  extracted_locations, None)
       IN  IF extracted_locations # <<>>
           THEN /\ session_locations' = after.locations
                /\ current_map_name' = after.current_map_name
           ELSE UNCHANGED sessionVars
    /\ pc' = "session"
    /\ UNCHANGED <<places, rendered, ret, data_dir, op, n_saves, framePipeline>>

\* the inline preview of the rerun: `if filtered_locations:` ... folium_static(m)
PipelinePreview ==
    /\ pc = "session" /\ session_locations # <<>>
    /\ \E selected_tags \in SUBSET get_unique_tags(session_locations) :
         LET filtered_locations == filter_locations_by_tags(session_locations, selected_tags)
         IN  /\ filtered_locations # <<>>
             /\ places' = filtered_locations
             /\ rendered' = preview_map(filtered_locations)
    /\ pc' = "previewed"
    /\ UNCHANGED <<ret, data_dir, op, n_saves, sessionVars, framePipeline>>

\* "Save Map" under the name m
PipelineSave ==
    /\ pc \in {"session", "previewed"} /\ session_locations # <<>>
    /\ \E selected_tags \in SUBSET get_unique_tags(session_locations), io \in IoOutcomes :
         LET filtered_locations == filter_locations_by_tags(session_locations, selected_tags)
             map_name == <<"m">>
             r == create_map(data_dir, api, None, filtered_locations, map_name, io)
         IN  /\ data_dir' = r.dir
             /\ n_saves' = n_saves + 1
             /\ op' = [kind |-> "save", name |-> map_name, ok |-> Len(r.ret) > 0]
             /\ current_map_name' = IF Len(r.ret) > 0 THEN map_name ELSE current_map_name
    /\ pc' = "saved"
    /\ UNCHANGED <<places, rendered, ret, session_locations, framePipeline>>

NextPipeline ==
    \/ ExtractLocationsCall
    \/ GenerateContentFails
    \/ GenerateContent
    \/ GeocodeLocationsStep
    \/ ExtractReturn
    \/ PipelineTakeOver
    \/ PipelinePreview
    \/ PipelineSave

SpecPipeline == InitPipeline /\ [][NextPipeline]_vars

(***************************************************************************)
(* Claims about the pipeline.                                              *)
(***************************************************************************)
\* the geocoder was asked for the place and answered with its coordinates
GeocodedBefore(name, lat, lng) ==
    \E k \in DOMAIN geo_log :
      /\ geo_log[k].ev = "request" /\ geo_log[k].name = name
      /\ geo_log[k].answer.kind = "ok"
      /\ geo_log[k].answer.lat = lat /\ geo_log[k].answer.lng = lng

PlaceGeocodedBefore(p) ==
    /\ {"latitude", "longitude"} \subseteq DOMAIN p
    /\ GeocodedBefore(p.name, p.latitude, p.longitude)

\* C21: the pipeline is sequential.  A geocoding request is issued only
\* inside the geocoding stage, which follows an LLM call whose response was
\* parsed into an array; a place is in the session, on the rendered map or
\* in a saved document only after the geocoder answered for it with its
\* coordinates; and when the extraction fails or yields nothing no geocoding
\* request is issued at all.
C21_SequentialPipeline ==
    /\ [][geo_log' # geo_log => (pc = "geocoding" /\ ex_llm_calls > 0
                                   /\ ContainsArray(ex_content))]_vars
    /\ []((pc \notin {"constructed", "llm", "geocoding"} /\ ~ContainsArray(ex_content))
            => (geo_log = <<>> /\ session_locations = <<>>))
    /\ [](\A i \in DOMAIN session_locations : PlaceGeocodedBefore(session_locations[i]))
    /\ [](\A i \in DOMAIN places : PlaceGeocodedBefore(places[i]))
    /\ [](\A f \in DOMAIN data_dir :
            (endswith(f, ".json") /\ data_dir[f].whole) =>
               \A i \in DOMAIN json_load(data_dir[f]).value :
                 PlaceGeocodedBefore(json_load(data_dir[f]).value[i]))
    /\ [][(session_locations' # session_locations \/ places' # places
              \/ data_dir' # data_dir)
            => (pc \in {"returned", "session", "previewed"} /\ geo_i = Len(geo_in))]_vars

\* a place went through the whole pipeline: extracted, geocoded, taken
\* over, rendered and saved
C21_Witness ==
    /\ pc = "saved" /\ op.ok
    /\ places # <<>> /\ Len(rendered.markers) = Len(places)
    /\ session_locations # <<>>
    /\ PlaceGeocodedBefore(session_locations[1])
    /\ json_load(data_dir[<<"m", ".json">>]).value = session_locations

====
